---- MODULE Spec2Model ----
(***************************************************************************)
(* A model of sersync-plus: the event queue (core/event_queue.py) with its *)
(* asyncio output queue, and the failure ledger written by the dispatcher  *)
(* (core/sync_engine.py) and retried by the executor                       *)
(* (core/faillog_executor.py).                                             *)
(*                                                                         *)
(* Time is counted in whole windows: TimePasses lets window_size seconds   *)
(* go by, every other step takes no time.                                  *)
(***************************************************************************)
EXTENDS Integers, Sequences, FiniteSets, TLC

\* ------------------------------------------------------------------ bounds
\* events pushed in one run of the event-queue model
MaxPush == 3
\* EventQueue(max_queue_size=...): capacity of the output FIFO in the model
MaxQueueSize == 1
\* longest event list handed to _merge_events in the merge model
MaxLen == 3

\* ------------------------------------------------------------------ paths
\* A path is its sequence of characters, so that str.startswith is the
\* prefix relation on sequences.
PathD == <<"/", "d">>
PathDF == <<"/", "d", "/", "f">>
PathD2 == <<"/", "d", "2">>
Paths == {PathD, PathDF, PathD2}

\* the events pushed in the event-queue model
PushEvents == {<<"DELETE_FOLDER", PathD>>, <<"DELETE_FOLDER", PathDF>>,
               <<"DELETE_FILE", PathDF>>, <<"CREATE_FILE", PathDF>>,
               <<"DELETE_FILE", PathD2>>}

StartsWith(s, p) == Len(p) <= Len(s) /\ SubSeq(s, 1, Len(p)) = p

\* file_path.startswith(delete_path + '/')
IsUnder(file_path, delete_path) == StartsWith(file_path, Append(delete_path, "/"))

\* ------------------------------------------------------------------ kinds
EventTypes == {"DELETE_FILE", "DELETE_FOLDER", "MOVE", "CLOSE_WRITE", "MODIFY",
               "CREATE_FILE", "CREATE_FOLDER", "ATTRIB"}

\* priority_order.get(e['type'], 0)
priority_order(type) ==
    CASE type = "DELETE_FILE" -> 4
      [] type = "DELETE_FOLDER" -> 4
      [] type = "MOVE" -> 3
      [] type = "CLOSE_WRITE" -> 2
      [] type = "MODIFY" -> 2
      [] type = "CREATE_FILE" -> 1
      [] type = "CREATE_FOLDER" -> 1
      [] OTHER -> 0

\* ------------------------------------------------------------------ sorted
\* sorted(events, key=priority, reverse=True) as a stable insertion sort on
\* the positions of the list: a position goes behind every position already
\* placed whose priority is not lower.
RECURSIVE InsertDesc(_, _, _)
InsertDesc(i, placed, types) ==
    IF placed = <<>> THEN <<i>>
    ELSE IF priority_order(types[Head(placed)]) >= priority_order(types[i])
         THEN <<Head(placed)>> \o InsertDesc(i, Tail(placed), types)
         ELSE <<i>> \o placed

RECURSIVE SortDescFrom(_, _, _)
SortDescFrom(i, placed, types) ==
    IF i > Len(types) THEN placed
    ELSE SortDescFrom(i + 1, InsertDesc(i, placed, types), types)

RECURSIVE InsertDescTiesFirst(_, _, _)
InsertDescTiesFirst(i, placed, types) ==
    IF placed = <<>> THEN <<i>>
    ELSE IF priority_order(types[Head(placed)]) > priority_order(types[i])
         THEN <<Head(placed)>> \o InsertDescTiesFirst(i, Tail(placed), types)
         ELSE <<i>> \o placed

RECURSIVE SortDescTiesFirstFrom(_, _, _)
SortDescTiesFirstFrom(i, placed, types) ==
    IF i > Len(types) THEN placed
    ELSE SortDescTiesFirstFrom(i + 1, InsertDescTiesFirst(i, placed, types), types)

\* an ascending sort read backwards: equal priorities come out latest first
events_sorted_reversed(types) == SortDescTiesFirstFrom(1, <<>>, types)

\* events_sorted: the positions of the list in sorted order
events_sorted(types) == SortDescFrom(1, <<>>, types)

\* _merge_events: the position of the event it returns
MergePos(types) ==
    IF Len(types) = 1 THEN 1 ELSE Head(events_sorted(types))

\* _merge_events: the merged_count it leaves on the returned event
\* (0: the key is not set)
MergeCountSet(types, old) ==
    IF Len(types) = 1 THEN old ELSE Len(types)

\* ------------------------------------------------------------------ state
VARIABLES
    events,          \* every event dict pushed so far, by arrival number
    groups,          \* every per-path list object created so far, by number
    pending,         \* pending_events: the dict's items in insertion order
    output_queue,    \* asyncio.Queue._queue
    putters,         \* asyncio.Queue._putters: flushes waiting in put()
    flushes,         \* the suspended flush() calls, by flush number
    nflush,          \* flush() calls that found pending events, so far
    stats,           \* EventQueue.stats
    window_elapsed,  \* time.time() - last_flush >= window_size
    timer,           \* _auto_flush_loop: "sleeping", "ready", "flushing"
    log              \* history: what each flush did with each group

qvars == <<events, groups, pending, output_queue, putters, flushes, nflush,
           stats, window_elapsed, timer, log>>

\* the part of the state a flush works on
QState == [events |-> events, groups |-> groups, pending |-> pending,
           output_queue |-> output_queue, putters |-> putters,
           stats |-> stats, log |-> log]

TypesOf(Q, gid) == [k \in 1..Len(Q.groups[gid]) |-> Q.events[Q.groups[gid][k]].type]

HasPending(pend, path) == \E i \in DOMAIN pend : pend[i].path = path

PendingGid(pend, path) == (CHOOSE i \in DOMAIN pend : pend[i].path = path)

\* del self.pending_events[file_path]
DelPending(pend, path) == SelectSeq(pend, LAMBDA it : it.path # path)

\* the paths with a DELETE_FOLDER among their pending events
PendingDirectoryDeletes(Q) ==
    {Q.pending[i].path : i \in {j \in DOMAIN Q.pending :
        \E k \in DOMAIN Q.groups[Q.pending[j].gid] :
            Q.events[Q.groups[Q.pending[j].gid][k]].type = "DELETE_FOLDER"}}

\* _is_filtered_by_parent_delete: the set it checks. An empty set passed in
\* is filled, in place, from the pending events.
deletes_to_check(Q, directory_deletes) ==
    IF directory_deletes = {} THEN PendingDirectoryDeletes(Q) ELSE directory_deletes

\* the filter without its startswith test
FilterSamePathOnly(file_path, type, deletes) ==
    /\ type # "DELETE_FOLDER"
    /\ \E delete_path \in deletes : file_path = delete_path

\* _is_filtered_by_parent_delete
is_filtered_by_parent_delete(file_path, type, deletes) ==
    /\ type # "DELETE_FOLDER"
    /\ \E delete_path \in deletes :
        IsUnder(file_path, delete_path) \/ file_path = delete_path

\* asyncio.Queue.full()
QueueFull(Q) == Len(Q.output_queue) >= MaxQueueSize

\* a loop over the raw events instead of over the paths
SnapshotPerEvent(pend, grps) ==
    LET RECURSIVE Expand(_)
        Expand(i) == IF i > Len(pend) THEN <<>>
                     ELSE [k \in 1..Len(grps[pend[i].gid]) |-> pend[i]] \o Expand(i + 1)
    IN Expand(1)

\* list(self.pending_events.items())
Snapshot(pend, grps) == pend

BumpStat(st, key, n) == [st EXCEPT ![key] = @ + n]

\* ------------------------------------------------------------------ flush
\* A flush() call is the record
\*   [fid, owner, snap, idx, deletes, deletes0, merged, msize, aged, st]:
\* snap is the list of (path, list object) it iterates and idx its place in
\* it; deletes is directory_deletes and deletes0 its value when the flush
\* started; merged is the event it is putting (msize events were in the list
\* when it was merged); aged says that a window has gone by since the flush
\* read current_time; st is "run", "waiting" (in put(), queue full) or
\* "woken" (its putter future has a result and the task is ready to run).

LogEntry(f, item, eid, size, what) ==
    [fid |-> f.fid, path |-> item.path, gid |-> item.gid, eid |-> eid,
     size |-> size, out |-> what,
     anc |-> \E d \in f.deletes0 : IsUnder(item.path, d)]

RECURSIVE FlushFrom(_, _)
RECURSIVE AfterItem(_, _)
RECURSIVE PutItem(_, _)

\* flush, lines 98-103 and 106: the loop of flush() from snap[idx] on, until
\* it ends, waits in put() or raises
FlushFrom(Q, f) ==
    IF f.idx > Len(f.snap) THEN [Q |-> Q, f |-> f, end |-> "done"]
    ELSE
      LET item == f.snap[f.idx]
          types == TypesOf(Q, item.gid)
          eid == Q.groups[item.gid][MergePos(types)]
          Q1 == [Q EXCEPT
                   !.events[eid].merged_count = MergeCountSet(types, @),
                   !.stats = IF Len(types) = 1 THEN @
                             ELSE BumpStat(@, "events_merged", Len(types) - 1)]
          type == Q1.events[eid].type
          dels == IF type = "DELETE_FOLDER" THEN f.deletes
                  ELSE deletes_to_check(Q1, f.deletes)
          f1 == [f EXCEPT !.deletes = dels, !.merged = eid, !.msize = Len(types)]
      IN IF is_filtered_by_parent_delete(item.path, type, dels)
         THEN AfterItem([Q1 EXCEPT
                           !.stats = BumpStat(@, "events_filtered", 1),
                           !.log = Append(@, LogEntry(f1, item, eid, Len(types),
                                                      "filtered"))],
                        f1)
         ELSE PutItem(Q1, f1)

\* flush, lines 115-117: await self.output_queue.put(merged_event)
PutItem(Q, f) ==
    IF QueueFull(Q)
    THEN [Q |-> [Q EXCEPT !.putters = Append(@, f.fid)],
          f |-> [f EXCEPT !.st = "waiting"], end |-> "blocked"]
    ELSE AfterItem([Q EXCEPT
                      !.output_queue = Append(@, f.merged),
                      !.stats = BumpStat(@, "events_output", 1),
                      !.log = Append(@, LogEntry(f, f.snap[f.idx], f.merged,
                                                 f.msize, "put"))],
                   f)

\* flush, line 120: del self.pending_events[file_path], then the next item
AfterItem(Q, f) ==
    LET path == f.snap[f.idx].path
    IN IF ~HasPending(Q.pending, path)
       THEN [Q |-> [Q EXCEPT !.log = Append(@, LogEntry(f, f.snap[f.idx], f.merged,
                                                        f.msize, "keyerror"))],
             f |-> f, end |-> "keyerror"]
       ELSE FlushFrom([Q EXCEPT !.pending = DelPending(@, path)],
                      [f EXCEPT !.idx = @ + 1, !.st = "run"])

\* flush, lines 84-96: a new flush() call on state Q
StartFlush(Q, owner, fid) ==
    IF Q.pending = <<>> THEN [Q |-> Q, f |-> [fid |-> fid], end |-> "noop"]
    ELSE FlushFrom(Q, [fid |-> fid, owner |-> owner,
                       snap |-> Snapshot(Q.pending, Q.groups), idx |-> 1,
                       deletes |-> PendingDirectoryDeletes(Q),
                       deletes0 |-> PendingDirectoryDeletes(Q),
                       merged |-> 0, msize |-> 0, aged |-> FALSE, st |-> "run"])

\* the state after a flush call ran as far as it could
Install(r) ==
    /\ events' = r.Q.events
    /\ groups' = r.Q.groups
    /\ pending' = r.Q.pending
    /\ output_queue' = r.Q.output_queue
    /\ putters' = r.Q.putters
    /\ stats' = r.Q.stats
    /\ log' = r.Q.log

Without(fs, fid) == [k \in (DOMAIN fs) \ {fid} |-> fs[k]]

\* ------------------------------------------------------------------ actions
InitQueue ==
    /\ events = <<>>
    /\ groups = <<>>
    /\ pending = <<>>
    /\ output_queue = <<>>
    /\ putters = <<>>
    /\ flushes = <<>>
    /\ nflush = 0
    /\ stats = [events_received |-> 0, events_merged |-> 0,
                events_output |-> 0, events_filtered |-> 0]
    /\ window_elapsed = FALSE
    /\ timer = "sleeping"
    /\ log = <<>>

\* push, lines 65-69
Pushed(Q, type, path) ==
    LET eid == Len(Q.events) + 1
        ev == [type |-> type, path |-> path, merged_count |-> 0]
    IN IF HasPending(Q.pending, path)
       THEN [Q EXCEPT !.events = Append(@, ev),
                      !.groups[Q.pending[PendingGid(Q.pending, path)].gid] = Append(@, eid),
                      !.stats = BumpStat(@, "events_received", 1)]
       ELSE [Q EXCEPT !.events = Append(@, ev),
                      !.groups = Append(@, <<eid>>),
                      !.pending = Append(@, [path |-> path, gid |-> Len(Q.groups) + 1]),
                      !.stats = BumpStat(@, "events_received", 1)]

\* EventQueue.push, run as its own task by the engine
Push(type, path) ==
    /\ Len(events) < MaxPush
    /\ LET Q1 == Pushed(QState, type, path)
       IN IF ~window_elapsed
          THEN /\ Install([Q |-> Q1])
               /\ UNCHANGED <<flushes, nflush, window_elapsed, timer>>
          ELSE LET r == StartFlush(Q1, "push", nflush + 1)
               IN /\ Install(r)
                  /\ nflush' = nflush + 1
                  /\ flushes' = IF r.end = "blocked"
                                THEN flushes @@ (r.f.fid :> r.f) ELSE flushes
                  /\ window_elapsed' = IF r.end = "done" THEN r.f.aged
                                       ELSE window_elapsed
                  /\ UNCHANGED timer

\* _auto_flush_loop: the sleep is over and the loop calls flush()
TimerFlush ==
    /\ timer = "ready"
    /\ LET r == StartFlush(QState, "timer", nflush + 1)
       IN /\ Install(r)
          /\ nflush' = IF r.end = "noop" THEN nflush ELSE nflush + 1
          /\ flushes' = IF r.end = "blocked"
                        THEN flushes @@ (r.f.fid :> r.f) ELSE flushes
          /\ window_elapsed' = IF r.end = "done" THEN r.f.aged ELSE window_elapsed
          /\ timer' = IF r.end = "blocked" THEN "flushing" ELSE "sleeping"

\* window_size seconds go by. A task that is ready to run (the loop whose
\* sleep is over, a flush whose put() was woken) runs before that.
TimePasses ==
    /\ timer # "ready"
    /\ \A fid \in DOMAIN flushes : flushes[fid].st # "woken"
    /\ \/ ~window_elapsed
       \/ timer = "sleeping"
       \/ \E fid \in DOMAIN flushes : ~flushes[fid].aged
    /\ window_elapsed' = TRUE
    /\ timer' = IF timer = "sleeping" THEN "ready" ELSE timer
    /\ flushes' = [fid \in DOMAIN flushes |-> [flushes[fid] EXCEPT !.aged = TRUE]]
    /\ UNCHANGED <<events, groups, pending, output_queue, putters, nflush, stats, log>>

\* EventQueue.get by a worker: asyncio's get_nowait takes the head and gives
\* the first waiting putter its result
Get ==
    /\ output_queue # <<>>
    /\ output_queue' = Tail(output_queue)
    /\ IF putters = <<>>
       THEN UNCHANGED <<putters, flushes>>
       ELSE /\ putters' = Tail(putters)
            /\ flushes' = [flushes EXCEPT ![Head(putters)].st = "woken"]
    /\ UNCHANGED <<events, groups, pending, nflush, stats, window_elapsed, timer, log>>

\* a woken flush runs again: put() looks at full() once more
Resume(fid) ==
    /\ fid \in DOMAIN flushes
    /\ flushes[fid].st = "woken"
    /\ LET r == PutItem(QState, flushes[fid])
       IN /\ Install(r)
          /\ flushes' = IF r.end = "blocked" THEN [flushes EXCEPT ![fid] = r.f]
                        ELSE Without(flushes, fid)
          /\ window_elapsed' = IF r.end = "done" THEN r.f.aged ELSE window_elapsed
          /\ timer' = IF r.end # "blocked" /\ flushes[fid].owner = "timer"
                      THEN "sleeping" ELSE timer
          /\ UNCHANGED nflush

\* ------------------------------------------------------------------ merge
\* _merge_events on its own: every list of up to MaxLen event kinds
VARIABLES
    m_types,   \* the kinds of the events handed to _merge_events, in order
    m_pos      \* the position of the event it returned (0: not called yet)

mvars == <<m_types, m_pos>>

RECURSIVE SeqsUpTo(_, _)
SeqsUpTo(S, n) ==
    IF n = 0 THEN {<<>>}
    ELSE LET shorter == SeqsUpTo(S, n - 1)
         IN shorter \cup {Append(q, x) : q \in {r \in shorter : Len(r) = n - 1}, x \in S}

InitMerge ==
    /\ m_types \in SeqsUpTo(EventTypes, MaxLen) \ {<<>>}
    /\ m_pos = 0

IdleMerge ==
    /\ m_types = <<"ATTRIB">>
    /\ m_pos = 0

MergeEvents ==
    /\ m_pos = 0
    /\ m_pos' = MergePos(m_types)
    /\ UNCHANGED m_types

\* ------------------------------------------------------------------ ledger
\* The failure ledger is a file of lines; content.split('\n') is the model
\* of its content, so a content that ends in a newline ends in a blank line.
\* A line is [k, cmd]: its kind and the rsync command it holds, if any.
Cmds == {"c1", "c2"}
\* _log_failure calls in one run of the ledger model
MaxLog == 3
\* executor ticks in one run of the ledger model
MaxTicks == 2

L(k) == [k |-> k, cmd |-> ""]
LC(k, c) == [k |-> k, cmd |-> c]
Blank == L("blank")

Last(q) == q[Len(q)]
Front(q) == SubSeq(q, 1, Len(q) - 1)

\* str + str on two contents: the last line of one runs into the first line
\* of the other
Concat(x, y) ==
    IF Last(x) = Blank THEN Front(x) \o y
    ELSE IF Head(y) = Blank THEN x \o Tail(y)
    ELSE Front(x) \o <<L("joined")>> \o Tail(y)

\* str.rstrip() of a content
RECURSIVE Rstrip(_)
Rstrip(x) ==
    IF Len(x) = 1 THEN x
    ELSE IF Last(x) = Blank THEN Rstrip(Front(x)) ELSE x

\* list.insert(i, v), i counted from 0
ListInsert(x, i, v) ==
    IF i >= Len(x) THEN Append(x, v)
    ELSE SubSeq(x, 1, i) \o <<v>> \o SubSeq(x, i + 1, Len(x))

\* '#!/bin/bash\n# FailLog retry script - generated by sersync\n
\*  RETRY_COUNT=0\nFAILED_COUNT=0\n\n'
HeaderText == <<L("shebang"), L("comment_generated"), L("retry_init"),
                L("failed_init"), Blank, Blank>>

\* the twelve lines of one ledger entry
EntryLines(comment, c) ==
    <<LC(comment, c), LC("echo_retrying", c), LC("cmd", c), L("capture"),
      L("if_result"), LC("echo_success", c), L("else"), LC("echo_failed", c),
      L("inc_failed"), L("fi"), L("inc_retry"), Blank>>

\* what _log_failure writes in append mode, lines 491-502
EntryText(c) == EntryLines("comment_failed_at", c) \o <<Blank>>

\* result_check of _add_result_check_to_script, lines 264-278
ResultCheckText ==
    <<Blank, L("comment_results"), L("echo_summary"), L("echo_total"),
      L("echo_failed_attempts"), L("echo_successful"), Blank,
      L("if_failed_zero"), L("echo_all_ok"), L("exit0"), L("else"),
      L("echo_some_failed"), L("exit1"), L("fi"), Blank>>

\* the bytes of a line; a command line is given the bytes of
\* 'rsync -artuz /w/a.txt 10.0.0.2::data/a.txt'
LineBytes(line) ==
    CASE line.k = "blank" -> 0
      [] line.k = "shebang" -> 11
      [] line.k = "fi" -> 2
      [] line.k = "else" -> 4
      [] line.k = "exit0" -> 10
      [] line.k = "exit1" -> 10
      [] line.k = "retry_init" -> 13
      [] line.k = "failed_init" -> 14
      [] line.k = "capture" -> 15
      [] line.k = "cmd" -> 42
      [] OTHER -> 30

RECURSIVE SumBytes(_)
SumBytes(x) == IF x = <<>> THEN 0 ELSE LineBytes(Head(x)) + SumBytes(Tail(x))

\* stat().st_size
FileSize(x) == SumBytes(x) + Len(x) - 1

\* _has_rsync_commands
has_rsync_commands(x) == \E i \in DOMAIN x : x[i].k = "cmd"

\* 'echo "=== FailLog Retry Summary ===" ' in content. The text sought ends
\* in a space; the echo line that result_check writes ends its line after
\* the closing quote, so no line the program writes holds it.
HasResultCheck(x) == \E i \in DOMAIN x : x[i].k = "echo_summary_then_space"

\* _add_result_check_to_script
add_result_check_to_script(x) ==
    IF HasResultCheck(x) THEN x ELSE Concat(Rstrip(x), ResultCheckText)

ClearedKeepingContent(x) == x

\* _clear_script: write_text('#!/bin/bash\n')
clear_script(x) == <<L("shebang"), Blank>>

RECURSIVE CommandBlocks(_, _)
CommandBlocks(commands, i) ==
    IF i > Len(commands) THEN <<>>
    ELSE EntryLines("comment_retry_command", commands[i]) \o CommandBlocks(commands, i + 1)

\* _generate_script_with_commands
generate_script_with_commands(commands) ==
    <<L("shebang"), L("comment_incremental"), L("retry_init"), L("failed_init"),
      Blank>> \o CommandBlocks(commands, 1)

\* the commands of the ledger: its literal command lines
LedgerCommands(x) == {x[i].cmd : i \in {j \in DOMAIN x : x[j].k = "cmd"}}

\* ---- the script as bash runs it
\* st = [i, mode, last, rr, fc, rc, out, exit]: the line to run, the branch
\* of the if it is in, $?, $RETRY_RESULT, $FAILED_COUNT and $RETRY_COUNT
\* (-1: unset), the lines printed and the exit status (-1: still running).
\* failing is the set of command lines whose rsync fails in this run.
Executes(st) == st.mode \in {"exec", "in_then", "in_else"}

Count(v) == IF v < 0 THEN 0 ELSE v

StepLine(line, st, failing) ==
    LET k == line.k
        next == [st EXCEPT !.i = @ + 1]
    IN CASE k = "if_result" /\ Executes(st) ->
              [next EXCEPT !.mode = IF st.rr = 0 THEN "in_then" ELSE "skip_then"]
         [] k = "if_failed_zero" /\ Executes(st) ->
              [next EXCEPT !.mode = IF st.fc = 0 THEN "in_then" ELSE "skip_then"]
         [] k = "else" ->
              [next EXCEPT !.mode = IF st.mode = "in_then" THEN "skip_else"
                                    ELSE IF st.mode = "skip_then" THEN "in_else"
                                    ELSE @]
         [] k = "fi" -> [next EXCEPT !.mode = "exec"]
         [] ~Executes(st) -> next
         [] k = "retry_init" -> [next EXCEPT !.rc = 0, !.last = 0]
         [] k = "failed_init" -> [next EXCEPT !.fc = 0, !.last = 0]
         [] k = "echo_retrying" ->
              [next EXCEPT !.out = Append(@, LC("Retrying", line.cmd)), !.last = 0]
         [] k = "cmd" -> [next EXCEPT !.last = IF st.i \in failing THEN 1 ELSE 0]
         [] k = "capture" -> [next EXCEPT !.rr = st.last, !.last = 0]
         [] k = "echo_success" ->
              [next EXCEPT !.out = Append(@, LC("SUCCESS", line.cmd)), !.last = 0]
         [] k = "echo_failed" ->
              [next EXCEPT !.out = Append(@, LC("FAILED", line.cmd)), !.last = 0]
         [] k = "inc_failed" -> [next EXCEPT !.fc = Count(@) + 1, !.last = 0]
         [] k = "inc_retry" -> [next EXCEPT !.rc = Count(@) + 1, !.last = 0]
         [] k \in {"echo_summary", "echo_total", "echo_failed_attempts",
                   "echo_successful", "echo_all_ok", "echo_some_failed"} ->
              [next EXCEPT !.out = Append(@, L("other")), !.last = 0]
         [] k = "exit0" -> [next EXCEPT !.exit = 0]
         [] k = "exit1" -> [next EXCEPT !.exit = 1]
         [] OTHER -> next

RECURSIVE RunFrom(_, _, _)
RunFrom(x, st, failing) ==
    IF st.exit >= 0 THEN st
    ELSE IF st.i > Len(x) THEN [st EXCEPT !.exit = st.last]
    ELSE RunFrom(x, StepLine(x[st.i], st, failing), failing)

\* /bin/bash script_path: the exit status and the standard output
RunScript(x, failing) ==
    LET st == RunFrom(x, [i |-> 1, mode |-> "exec", last |-> 0, rr |-> -1,
                          fc |-> -1, rc |-> -1, out |-> <<>>, exit |-> -1], failing)
    IN [returncode |-> st.exit, output |-> st.out]

\* the command lines bash reaches: those before the first exit
RunLines(x) ==
    {i \in DOMAIN x : x[i].k = "cmd" /\ \A j \in 1..(i - 1) : x[j].k \notin {"exit0", "exit1"}}

\* ---- _parse_failed_commands_from_output, a line at a time
InList(q, v) == \E i \in DOMAIN q : q[i] = v

RECURSIVE ParseFrom(_, _, _, _)
ParseFrom(output, i, current, failed) ==
    IF i > Len(output) THEN failed
    ELSE LET line == output[i]
         IN IF line.k = "Retrying" THEN ParseFrom(output, i + 1, line.cmd, failed)
            ELSE IF line.k = "FAILED" /\ current # ""
            THEN ParseFrom(output, i + 1, "",
                           IF InList(failed, current) THEN failed
                           ELSE Append(failed, current))
            ELSE IF line.k = "SUCCESS" THEN ParseFrom(output, i + 1, "", failed)
            ELSE ParseFrom(output, i + 1, current, failed)

parse_failed_commands_from_output(output) == ParseFrom(output, 1, "", <<>>)

\* ---- the ledger file, the dispatcher that appends to it and the executor
\* ledger: the file; lpc: where the executor's tick is ("idle", or awaiting
\* the first or the second run of the script); proc: the bash process
\* awaited; nlogged, nticks: calls made so far; tick_added: the commands
\* appended since the tick began; tick_out1: what the tick's first run
\* printed; last_rc: the exit status of the last run awaited
\* (-1: none, -2: the process could not be started).
\* tick_before: the lines of the file when the tick in progress read it
VARIABLES ledger, lpc, proc, nlogged, nticks, tick_added, tick_out1, last_rc, tick_before

lvars == <<ledger, lpc, proc, nlogged, nticks, tick_added, tick_out1, last_rc, tick_before>>

NoProc == [returncode |-> -1, output |-> <<>>]

\* lines 467-483: the header the dispatcher gives the file before it appends
EnsureHeader(led) ==
    IF ~led.exists THEN HeaderText
    ELSE IF Head(led.lines).k # "shebang" THEN Concat(HeaderText, led.lines)
    ELSE IF ~\E i \in DOMAIN led.lines : led.lines[i].k = "retry_init"
    THEN ListInsert(ListInsert(ListInsert(ListInsert(led.lines,
             2, L("comment_generated")), 3, L("retry_init")),
             4, L("failed_init")), 5, Blank)
    ELSE led.lines

OverwriteEntry(x, c) == EntryText(c)

\* lines 490-502: open(fail_log_path, 'a') and twelve writes
AppendEntry(x, c) == Concat(x, EntryText(c))

InitLedger ==
    /\ ledger \in {[exists |-> FALSE, lines |-> <<Blank>>],
                   [exists |-> TRUE, lines |-> <<Blank>>]}
    /\ lpc = "idle"
    /\ proc = NoProc
    /\ nlogged = 0
    /\ nticks = 0
    /\ tick_added = {}
    /\ tick_out1 = <<>>
    /\ last_rc = -1
    /\ tick_before = <<>>

IdleLedger ==
    /\ ledger = [exists |-> FALSE, lines |-> <<Blank>>]
    /\ lpc = "idle"
    /\ proc = NoProc
    /\ nlogged = 0
    /\ nticks = 0
    /\ tick_added = {}
    /\ tick_out1 = <<>>
    /\ last_rc = -1
    /\ tick_before = <<>>

\* SyncEngine._log_failure; it has no await, so it runs whole whenever the
\* executor is suspended or idle
LogFailure(c) ==
    /\ nlogged < MaxLog
    /\ nlogged' = nlogged + 1
    /\ ledger' = [exists |-> TRUE, lines |-> AppendEntry(EnsureHeader(ledger), c)]
    /\ tick_added' = IF lpc = "idle" THEN tick_added ELSE tick_added \cup {c}
    /\ UNCHANGED <<lpc, proc, nticks, tick_out1, last_rc, tick_before>>

\* create_subprocess_exec('/bin/bash', script_path) and communicate(): the
\* process runs the file as it is when it starts; which rsync commands fail
\* is the network's choice; the process may also fail to start
Spawned(x) ==
    {RunScript(x, failing) : failing \in SUBSET RunLines(x)} \cup {[returncode |-> -2, output |-> <<>>]}

\* the commands of the lines of one kind in what a run printed
Reported(output, k) ==
    {output[i].cmd : i \in {j \in DOMAIN output : output[j].k = k}}

TickAbortsOnlyIfMissing(led) == ~led.exists

\* lines 111-135: the tick returns before it touches the file
TickAborts(led) ==
    \/ ~led.exists
    \/ FileSize(led.lines) <= 12
    \/ ~has_rsync_commands(led.lines)

\* _check_and_execute up to the await of the first run
TickStart ==
    /\ lpc = "idle"
    /\ nticks < MaxTicks
    /\ nticks' = nticks + 1
    /\ tick_added' = {}
    /\ tick_out1' = <<>>
    /\ IF TickAborts(ledger)
       THEN UNCHANGED <<ledger, lpc, proc, last_rc, tick_before>>
       ELSE LET script == add_result_check_to_script(ledger.lines)
            IN /\ ledger' = [ledger EXCEPT !.lines = script]
               /\ tick_before' = ledger.lines
               /\ proc' \in Spawned(script)
               /\ lpc' = "run1"
               /\ last_rc' = -1
    /\ UNCHANGED nlogged

\* the first run returns: lines 149-162, up to the await of the second run
Run1Done ==
    /\ lpc = "run1"
    /\ last_rc' = proc.returncode
    /\ tick_out1' = proc.output
    /\ IF proc.returncode = 0
       THEN /\ ledger' = [ledger EXCEPT !.lines = clear_script(ledger.lines)]
            /\ lpc' = "idle"
            /\ proc' = NoProc
            /\ tick_before' = <<>>
       ELSE /\ proc' \in Spawned(ledger.lines)
            /\ lpc' = "run2"
            /\ UNCHANGED <<ledger, tick_before>>
    /\ UNCHANGED <<nlogged, nticks, tick_added>>

\* the second run returns: _perform_incremental_cleanup after its await
Run2Done ==
    /\ lpc = "run2"
    /\ last_rc' = proc.returncode
    /\ lpc' = "idle"
    /\ proc' = NoProc
    /\ tick_before' = <<>>
    /\ LET failed_commands == parse_failed_commands_from_output(proc.output)
       IN ledger' = [ledger EXCEPT !.lines =
                       IF proc.returncode = 0 THEN clear_script(ledger.lines)
                       ELSE IF failed_commands = <<>> THEN ledger.lines
                       ELSE generate_script_with_commands(failed_commands)]
    /\ UNCHANGED <<nlogged, nticks, tick_added, tick_out1>>

\* ------------------------------------------------------------------ dispatcher
\* SyncEngine.sync_file: one rsync invocation per remote, a ledger entry for
\* each that fails.
Remotes == <<"r1", "r2">>
\* sync_file calls in one run of the dispatcher model
MaxDispatch == 2

DispatchTypes == {"DELETE_FILE", "DELETE_FOLDER", "CLOSE_WRITE"}

\* what the file system holds of the event's path: the path itself and its
\* parent directory
FsStates == {[source |-> TRUE, parent |-> TRUE],
             [source |-> FALSE, parent |-> TRUE],
             [source |-> FALSE, parent |-> FALSE]}

\* how an invocation ends: the exit of rsync, with or without 'No such file
\* or directory' on stderr, the timeout of wait_for, or an exception
Outcomes ==
    [kind : {"exit"}, returncode : {0, 12, 23}, nsf : BOOLEAN]
        \cup {[kind |-> "timeout", returncode |-> -1, nsf |-> FALSE],
              [kind |-> "exception", returncode |-> -1, nsf |-> FALSE]}

\* event_type.startswith('DELETE')
IsDelete(type) == type \in {"DELETE_FILE", "DELETE_FOLDER"}

SkipsNothing(type, f) == FALSE

\* lines 152-180: a delete whose source and whose parent are both gone
SkipsSync(type, f) == IsDelete(type) /\ ~f.source /\ ~f.parent

\* _build_rsync_cmd joined with ' ': a delete of a missing source with a
\* parent that exists names the parent directory
build_rsync_cmd(type, remote, f) ==
    IF IsDelete(type)
    THEN IF ~f.source /\ f.parent
         THEN IF remote = "r1" THEN "rsync -artuz --delete /w/d/ r1::m/d"
              ELSE "rsync -artuz --delete /w/d/ r2::m/d"
         ELSE IF remote = "r1" THEN "rsync -artuz --delete /w/d/f r1::m/d/f"
              ELSE "rsync -artuz --delete /w/d/f r2::m/d/f"
    ELSE IF remote = "r1" THEN "rsync -artuz /w/d/f r1::m/d/f"
         ELSE "rsync -artuz /w/d/f r2::m/d/f"

CoercedForAnyEvent(type, o) ==
    o.kind = "exit" /\ (o.returncode = 0 \/ (o.returncode = 23 /\ o.nsf))

\* lines 229-236: success of an invocation that ended
RsyncSuccess(type, o) ==
    /\ o.kind = "exit"
    /\ \/ o.returncode = 0
       \/ IsDelete(type) /\ o.returncode = 23 /\ o.nsf

\* the entries of a ledger content
Entries(x) == Cardinality({i \in DOMAIN x : x[i].k = "cmd"})

\* fs: the file system; d_pc: where sync_file is ("idle", "call": about to
\* call _rsync_to_remote, "await": awaiting rsync); d_type, d_remote, d_cmd:
\* the event, the index of the remote and the command being run; d_results:
\* the results list; d_last: the last invocation that returned; ndispatch:
\* sync_file calls so far; sync_stats: SyncEngine.stats
\* engine_stats: sync_success, sync_failed and files_synced of SersyncEngine.stats
\* d_proc: the rsync subprocess of the latest invocation: "none", "running",
\* "exited" or "killed"
VARIABLES fs, d_pc, d_type, d_remote, d_cmd, d_results, d_last, ndispatch, sync_stats,
          engine_stats, d_proc

dvars ==
    <<fs, d_pc, d_type, d_remote, d_cmd, d_results, d_last, ndispatch, sync_stats,
      engine_stats, d_proc>>

NoInvocation ==
    [valid |-> FALSE, type |-> "", remote |-> "", skipped |-> FALSE, cmd |-> "",
     outcome |-> [kind |-> "none", returncode |-> -1, nsf |-> FALSE],
     success |-> FALSE, before |-> 0, after |-> 0, logged |-> "", proc |-> "none"]

InitDispatch ==
    /\ fs \in FsStates
    /\ d_pc = "idle"
    /\ d_type = ""
    /\ d_remote = 0
    /\ d_cmd = ""
    /\ d_results = <<>>
    /\ d_last = NoInvocation
    /\ ndispatch = 0
    /\ sync_stats = [total_syncs |-> 0, success_syncs |-> 0, failed_syncs |-> 0]
    /\ engine_stats = [files_synced |-> 0, sync_success |-> 0, sync_failed |-> 0]
    /\ d_proc = "none"

IdleDispatch ==
    /\ fs = [source |-> TRUE, parent |-> TRUE]
    /\ d_pc = "idle"
    /\ d_type = ""
    /\ d_remote = 0
    /\ d_cmd = ""
    /\ d_results = <<>>
    /\ d_last = NoInvocation
    /\ ndispatch = 0
    /\ sync_stats = [total_syncs |-> 0, success_syncs |-> 0, failed_syncs |-> 0]
    /\ engine_stats = [files_synced |-> 0, sync_success |-> 0, sync_failed |-> 0]
    /\ d_proc = "none"

\* another process creates or removes the path or its parent
FsChange ==
    /\ \E f \in FsStates : f # fs /\ fs' = f
    /\ UNCHANGED <<d_pc, d_type, d_remote, d_cmd, d_results, d_last, ndispatch, sync_stats,
                   engine_stats, d_proc>>

\* sync_file is called for an event
SyncFileStart(type) ==
    /\ d_pc = "idle"
    /\ ndispatch < MaxDispatch
    /\ ndispatch' = ndispatch + 1
    /\ d_type' = type
    /\ d_remote' = 1
    /\ d_results' = <<>>
    /\ d_pc' = "call"
    /\ UNCHANGED <<fs, d_cmd, d_last, sync_stats, engine_stats, d_proc>>

SuccessCount(results) == Cardinality({i \in DOMAIN results : results[i]})

\* _process_event after sync_file has returned: the engine's statistics
AfterProcessEvent(st, results) ==
    IF SuccessCount(results) = Len(results)
    THEN [st EXCEPT !.files_synced = @ + 1, !.sync_success = @ + Len(Remotes)]
    ELSE [st EXCEPT !.sync_failed = @ + (Len(results) - SuccessCount(results))]

\* lines 71-95: the result is appended; after the last remote the
\* statistics are updated, sync_file returns and _process_event updates the
\* engine's statistics
Returned(success) ==
    /\ d_results' = Append(d_results, success)
    /\ IF d_remote < Len(Remotes)
       THEN /\ d_remote' = d_remote + 1
            /\ d_pc' = "call"
            /\ UNCHANGED <<sync_stats, engine_stats>>
       ELSE /\ d_remote' = 0
            /\ d_pc' = "idle"
            /\ sync_stats' =
                 [total_syncs |-> sync_stats.total_syncs + Len(Remotes),
                  success_syncs |-> sync_stats.success_syncs + SuccessCount(d_results'),
                  failed_syncs |-> sync_stats.failed_syncs
                                     + (Len(d_results') - SuccessCount(d_results'))]
            /\ engine_stats' = AfterProcessEvent(engine_stats, d_results')

\* _rsync_to_remote up to its await: the skip of lines 152-180, or the
\* command is built and rsync is started
Invoke ==
    /\ d_pc = "call"
    /\ IF SkipsSync(d_type, fs)
       THEN /\ Returned(TRUE)
            /\ d_last' = [valid |-> TRUE, type |-> d_type, remote |-> Remotes[d_remote],
                          skipped |-> TRUE, cmd |-> "",
                          outcome |-> NoInvocation.outcome, success |-> TRUE,
                          before |-> Entries(ledger.lines),
                          after |-> Entries(ledger.lines), logged |-> "",
                          proc |-> "none"]
            /\ d_proc' = "none"
            /\ UNCHANGED d_cmd
       ELSE /\ d_cmd' = build_rsync_cmd(d_type, Remotes[d_remote], fs)
            /\ d_proc' = "running"
            /\ d_pc' = "await"
            /\ UNCHANGED <<d_remote, d_results, d_last, sync_stats, engine_stats>>
    /\ UNCHANGED <<fs, d_type, ndispatch, lvars>>

\* lines 191-228 and 265-281: the subprocess when _rsync_to_remote returns.
\* communicate() returns once it has exited; when wait_for times out the
\* communicate() call is cancelled and nothing is sent to the subprocess; an
\* exception comes from the spawn (no subprocess) or from a later call
ProcessAfter(o) ==
    CASE o.kind = "exit" -> {"exited"}
      [] o.kind = "timeout" -> {"running"}
      [] OTHER -> {"none", "running"}

\* an rsync that is no longer awaited ends by itself
ProcessExits ==
    /\ d_proc = "running"
    /\ d_pc # "await"
    /\ d_proc' = "exited"
    /\ UNCHANGED <<fs, d_pc, d_type, d_remote, d_cmd, d_results, d_last, ndispatch,
                   sync_stats, engine_stats>>

\* the invocation ends; sync_file logs a failure with _log_failure, which
\* builds the command again
RsyncDone(o) ==
    /\ d_pc = "await"
    /\ d_proc' \in ProcessAfter(o)
    /\ LET success == RsyncSuccess(d_type, o)
           logged == build_rsync_cmd(d_type, Remotes[d_remote], fs)
       IN /\ Returned(success)
          /\ ledger' = IF success THEN ledger
                       ELSE [exists |-> TRUE,
                             lines |-> AppendEntry(EnsureHeader(ledger), logged)]
          /\ d_last' = [valid |-> TRUE, type |-> d_type, remote |-> Remotes[d_remote],
                        skipped |-> FALSE, cmd |-> d_cmd, outcome |-> o,
                        success |-> success,
                        before |-> Entries(ledger.lines),
                        after |-> Entries(ledger'.lines),
                        logged |-> IF success THEN "" ELSE logged,
                        proc |-> d_proc']
    /\ d_cmd' = ""
    /\ UNCHANGED <<fs, d_type, ndispatch>>
    /\ UNCHANGED <<lpc, proc, nlogged, nticks, tick_added, tick_out1, last_rc, tick_before>>

\* ------------------------------------------------------------------ metadata store
\* A path is a sequence of components. /l is a symbolic link to /w/s.
NoPath == <<>>

LinkPath == <<"l">>
LinkTarget == <<"w", "s">>

\* the characters of a component
CompChars(c) ==
    CASE c = "wx" -> <<"w", "x">>
      [] c = ".." -> <<".", ".">>
      [] OTHER -> <<c>>

\* str(path)
RECURSIVE PathStr(_)
PathStr(p) ==
    IF p = <<>> THEN <<>> ELSE <<"/">> \o CompChars(Head(p)) \o PathStr(Tail(p))

\* Path(path).resolve(): '..' steps up, a symbolic link is followed
RECURSIVE ResolveFrom(_, _)
ResolveFrom(done, rest) ==
    IF rest = <<>> THEN done
    ELSE IF Head(rest) = ".."
         THEN ResolveFrom(IF done = <<>> THEN done ELSE SubSeq(done, 1, Len(done) - 1),
                          Tail(rest))
         ELSE LET next == Append(done, Head(rest))
              IN ResolveFrom(IF next = LinkPath THEN LinkTarget ELSE next, Tail(rest))

Resolve(p) == ResolveFrom(<<>>, p)

\* the watched roots and the overrides of the configurations modelled
WatchPaths == {<<"w">>, <<"v", "..", "w">>}

OverridePaths == {NoPath, <<"w", "m">>, <<"v", "m">>, <<"v", "..", "w", "m">>,
                  <<"l", "m">>, <<"wx", "m">>}

OverrideKeys == {"metadata_dir", "conflict_backup_dir", "lock_file"}

NeverInsideWatch(path, watch_path) == FALSE

\* _is_path_inside_watch: str(path_resolved).startswith(str(self.watch_path))
is_path_inside_watch(path, watch_path) ==
    StartsWith(PathStr(Resolve(path)), PathStr(watch_path))

\* the default paths under /var/sersync/bidirectional/<hash>
DefaultPath(key) ==
    CASE key = "metadata_dir" -> <<"var", "state">>
      [] key = "conflict_backup_dir" -> <<"var", "conflicts">>
      [] OTHER -> <<"var", "sync.lock">>

\* MetadataManager.__init__: [result, created]. metadata_config is None
\* (NoConfig) or holds the three keys, NoPath for a key that is None. A key
\* that is None leaves None in metadata_paths, and Path(None) raises.
NoConfig == [k \in OverrideKeys |-> NoPath]

MetadataManagerInit(watch, config) ==
    LET watch_path == Resolve(watch)
    IN IF config = NoConfig
       THEN [result |-> "ok",
             created |-> {DefaultPath("metadata_dir"), DefaultPath("conflict_backup_dir"),
                          Append(DefaultPath("metadata_dir"), "node_id")}]
       ELSE IF \E k \in OverrideKeys :
                  config[k] # NoPath /\ is_path_inside_watch(config[k], watch_path)
       THEN [result |-> "ValueError", created |-> {}]
       ELSE IF config["metadata_dir"] = NoPath
       THEN [result |-> "TypeError", created |-> {}]
       ELSE IF config["conflict_backup_dir"] = NoPath
       THEN [result |-> "TypeError", created |-> {config["metadata_dir"]}]
       ELSE [result |-> "ok",
             created |-> {config["metadata_dir"], config["conflict_backup_dir"],
                          Append(config["metadata_dir"], "node_id")}]

\* e_watch, e_mode, e_config: the configuration (watched root, the remote's
\* mode and its overrides); md_result, md_created: how the construction of
\* the metadata store ended ("none": not attempted) and what it created;
\* e_state: the engine ("new", "constructed", "running"); e_bidir: the
\* number of two-way engines; e_tasks: the loops that start() has started
\* the fail_log.path of the configurations modelled; NoPath is the empty path
FailLogPaths == {NoPath, <<"tmp", "rsync_fail_log.sh">>, <<"w", "fail.sh">>, <<"l", "fail.sh">>}

\* SyncEngine.__init__: the arguments are stored, nothing is examined
SyncEngineInit(watch_path, fail_log) == "ok"

\* FailLogExecutor.__init__: the path is stored, nothing is examined
FailLogExecutorInit(fail_log) == "ok"

\* e_fail_log: config.fail_log.path; e_built: the parts of the engine whose
\* constructor has returned
VARIABLES e_watch, e_mode, e_config, md_result, md_created, e_state, e_bidir, e_tasks,
          e_fail_log, e_built

evars ==
    <<e_watch, e_mode, e_config, md_result, md_created, e_state, e_bidir, e_tasks,
      e_fail_log, e_built>>

InitEngine ==
    /\ e_watch \in WatchPaths
    /\ e_mode \in {"unidirectional", "bidirectional"}
    /\ e_config \in [OverrideKeys -> OverridePaths]
    /\ md_result = "none"
    /\ md_created = {}
    /\ e_state = "new"
    /\ e_bidir = 0
    /\ e_tasks = {}
    /\ e_fail_log \in FailLogPaths
    /\ e_built = {}

IdleEngine ==
    /\ e_watch = <<"w">>
    /\ e_mode = "unidirectional"
    /\ e_config = NoConfig
    /\ md_result = "none"
    /\ md_created = {}
    /\ e_state = "new"
    /\ e_bidir = 0
    /\ e_tasks = {}
    /\ e_fail_log = <<"tmp", "rsync_fail_log.sh">>
    /\ e_built = {}

\* SersyncEngine.__init__ with _setup_bidirectional_sync: the two-way engine
\* and its metadata store are built inside try ... except Exception, which
\* logs the error
EngineInit ==
    /\ e_state = "new"
    /\ e_state' = "constructed"
    /\ IF e_mode = "bidirectional"
       THEN LET r == MetadataManagerInit(e_watch, e_config)
            IN /\ md_result' = r.result
               /\ md_created' = r.created
               /\ e_bidir' = IF r.result = "ok" THEN 1 ELSE 0
       ELSE UNCHANGED <<md_result, md_created, e_bidir>>
    /\ e_built' =
          (IF SyncEngineInit(e_watch, e_fail_log) = "ok" THEN {"sync_engine"} ELSE {})
              \cup (IF e_fail_log # NoPath /\ FailLogExecutorInit(e_fail_log) = "ok"
                    THEN {"faillog_executor"} ELSE {})
    /\ UNCHANGED <<e_watch, e_mode, e_config, e_tasks, e_fail_log>>

\* SersyncEngine.start up to its gather
EngineStart ==
    /\ e_state = "constructed"
    /\ e_state' = "running"
    /\ e_tasks' = {"auto_flush", "monitor", "worker", "web_status"}
                     \cup (IF e_bidir > 0 THEN {"bidirectional"} ELSE {})
                     \cup (IF "faillog_executor" \in e_built THEN {"faillog"} ELSE {})
    /\ UNCHANGED <<e_watch, e_mode, e_config, md_result, md_created, e_bidir, e_fail_log,
                   e_built>>

\* ------------------------------------------------------------------ sync state file
\* save_sync_state calls in one run of the model
MaxSaves == 3
\* the writes that json.dump makes for one state
MaxChunks == 2

\* a file: whether it exists, the version of the state written to it and
\* how many of the MaxChunks writes it holds
NoFile == [exists |-> FALSE, version |-> 0, written |-> 0]

\* json.load of the file and _validate_state_format: the state, or the
\* failure that load_sync_state turns into the initial state
ReadFile(file) ==
    IF ~file.exists THEN [kind |-> "initial", version |-> 1]
    ELSE IF file.written < MaxChunks THEN [kind |-> "invalid", version |-> 1]
    ELSE [kind |-> "state", version |-> file.version]

OpenStateFileForWrite(files, v) ==
    [state |-> [exists |-> TRUE, version |-> v, written |-> 0], temp |-> files.temp]

\* lines 178-179: open(state_file.with_suffix('.tmp'), 'w')
OpenTempForWrite(files, v) ==
    [state |-> files.state, temp |-> [exists |-> TRUE, version |-> v, written |-> 0]]

\* state_file, temp_file: sync_state.json and sync_state.tmp; s_pc: where
\* save_sync_state is ("idle", "writing"); nsaves: saves begun; committed:
\* the version of the last save that returned (0: none); last_read: what the
\* last load_sync_state of a reader got
VARIABLES state_file, temp_file, s_pc, nsaves, committed, last_read

svars == <<state_file, temp_file, s_pc, nsaves, committed, last_read>>

InitState ==
    /\ state_file = NoFile
    /\ temp_file = NoFile
    /\ s_pc = "idle"
    /\ nsaves = 0
    /\ committed = 0
    /\ last_read = [kind |-> "none", version |-> 0]

\* update_file_state: load_sync_state, then save_sync_state up to the open
\* of the temporary file
SaveStart ==
    /\ s_pc = "idle"
    /\ nsaves < MaxSaves
    /\ nsaves' = nsaves + 1
    /\ LET files == OpenTempForWrite([state |-> state_file, temp |-> temp_file],
                                     ReadFile(state_file).version + 1)
       IN state_file' = files.state /\ temp_file' = files.temp
    /\ s_pc' = "writing"
    /\ UNCHANGED <<committed, last_read>>

\* json.dump writes a part of the state to the temporary file
WriteChunk ==
    /\ s_pc = "writing"
    /\ temp_file.written < MaxChunks
    /\ temp_file' = [temp_file EXCEPT !.written = @ + 1]
    /\ UNCHANGED <<state_file, s_pc, nsaves, committed, last_read>>

\* line 182: temp_file.replace(state_file)
Rename ==
    /\ s_pc = "writing"
    /\ temp_file.written = MaxChunks
    /\ state_file' = temp_file
    /\ temp_file' = NoFile
    /\ committed' = temp_file.version
    /\ s_pc' = "idle"
    /\ UNCHANGED <<nsaves, last_read>>

\* the process dies, or json.dump raises, before the rename
Crash ==
    /\ s_pc = "writing"
    /\ s_pc' = "idle"
    /\ UNCHANGED <<state_file, temp_file, nsaves, committed, last_read>>

\* a reader calls load_sync_state
Load ==
    /\ last_read' = ReadFile(state_file)
    /\ last_read' # last_read
    /\ UNCHANGED <<state_file, temp_file, s_pc, nsaves, committed>>

\* ------------------------------------------------------------------ conflict detector
\* FileMetadata: exists, mtime, size (-1: None) and content_hash ("": None)
time_tolerance == 2

AbsentMeta == [exists |-> FALSE, mtime |-> -1, size |-> -1, content_hash |-> ""]

Metas ==
    [exists : {TRUE}, mtime : {-1, 0, 1, 4}, size : {1, 2}, content_hash : {"", "a", "b"}]
        \cup {AbsentMeta}

\* base_meta is None
NoMeta == [exists |-> FALSE, mtime |-> -2, size |-> -2, content_hash |-> ""]

\* the truth value of an mtime: None and 0 are false
MtimeSet(m) == m.mtime > 0

Abs(n) == IF n < 0 THEN -n ELSE n

\* _files_identical
files_identical(meta1, meta2, enable_content_hash) ==
    IF meta1.exists # meta2.exists THEN FALSE
    ELSE IF ~meta1.exists /\ ~meta2.exists THEN TRUE
    ELSE IF meta1.size # meta2.size THEN FALSE
    ELSE IF /\ MtimeSet(meta1) /\ MtimeSet(meta2)
            /\ Abs(meta1.mtime - meta2.mtime) > time_tolerance
            /\ ~enable_content_hash
    THEN FALSE
    ELSE IF enable_content_hash /\ meta1.content_hash # "" /\ meta2.content_hash # ""
    THEN meta1.content_hash = meta2.content_hash
    ELSE TRUE

LocalOnlyNeverConflicts(base_meta) == "no_conflict"

\* lines 193-204: the local file exists and the remote one does not
LocalOnly(base_meta) ==
    IF base_meta # NoMeta /\ base_meta.exists THEN "remote_deleted_local_modified"
    ELSE "no_conflict"

\* lines 207-218: the remote file exists and the local one does not
RemoteOnly(base_meta) ==
    IF base_meta # NoMeta /\ base_meta.exists THEN "local_deleted_remote_modified"
    ELSE "no_conflict"

\* detect_conflict: the conflict type, "no_conflict" for None
detect_conflict(local_meta, remote_meta, base_meta, hash) ==
    IF ~local_meta.exists /\ ~remote_meta.exists THEN "no_conflict"
    ELSE IF local_meta.exists /\ ~remote_meta.exists THEN LocalOnly(base_meta)
    ELSE IF ~local_meta.exists /\ remote_meta.exists THEN RemoteOnly(base_meta)
    ELSE IF /\ base_meta # NoMeta /\ ~base_meta.exists
            /\ ~files_identical(local_meta, remote_meta, hash)
    THEN "both_created"
    ELSE IF files_identical(local_meta, remote_meta, hash) THEN "no_conflict"
    ELSE IF /\ base_meta # NoMeta /\ base_meta.exists
            /\ ~files_identical(local_meta, base_meta, hash)
            /\ ~files_identical(remote_meta, base_meta, hash)
    THEN "both_modified"
    ELSE "no_conflict"

\* c_local, c_remote, c_base, c_hash: the metadata given to the detector and
\* its enable_content_hash; c_result, c_swapped: what detect_conflict
\* returns for (local, remote, base) and for (remote, local, base)
\* c_identical: what _files_identical returns for (local, remote)
VARIABLES c_local, c_remote, c_base, c_hash, c_result, c_swapped, c_identical

cvars == <<c_local, c_remote, c_base, c_hash, c_result, c_swapped, c_identical>>

InitConflict ==
    /\ c_local \in Metas
    /\ c_remote \in Metas
    /\ c_base \in Metas \cup {NoMeta}
    /\ c_hash \in BOOLEAN
    /\ c_result = "unset"
    /\ c_swapped = "unset"
    /\ c_identical = FALSE

IdleConflict ==
    /\ c_local = AbsentMeta
    /\ c_remote = AbsentMeta
    /\ c_base = NoMeta
    /\ c_hash = TRUE
    /\ c_result = "unset"
    /\ c_swapped = "unset"
    /\ c_identical = FALSE

DetectConflict ==
    /\ c_result = "unset"
    /\ c_result' = detect_conflict(c_local, c_remote, c_base, c_hash)
    /\ c_swapped' = detect_conflict(c_remote, c_local, c_base, c_hash)
    /\ c_identical' = files_identical(c_local, c_remote, c_hash)
    /\ UNCHANGED <<c_local, c_remote, c_base, c_hash>>

\* ------------------------------------------------------------------ file monitor
MaxMoves == 3

MaxCalls == 1

MonitorPaths == {"/w/a", "/w/b"}

\* InotifyConfig: one flag per kind of event
MoveConfigs ==
    [delete : BOOLEAN, create_folder : BOOLEAN, create_file : BOOLEAN,
     close_write : BOOLEAN, move_from : BOOLEAN, move_to : BOOLEAN,
     attrib : BOOLEAN, modify : BOOLEAN]

\* the defaults of InotifyConfig
DefaultInotifyConfig ==
    [delete |-> TRUE, create_folder |-> TRUE, create_file |-> FALSE,
     close_write |-> TRUE, move_from |-> TRUE, move_to |-> TRUE,
     attrib |-> FALSE, modify |-> FALSE]

Backends == {"pyinotify", "watchdog"}

\* the notifications whose handler makes at most one callback call by itself
PlainKinds == {"IN_DELETE", "IN_CREATE", "IN_CLOSE_WRITE", "IN_MODIFY", "IN_ATTRIB"}

\* the events the watchdog observer dispatches
WatchdogKinds == {"created", "modified", "deleted", "moved"}

NoNotification == [kind |-> "none", cookie |-> 0, pathname |-> "", dir |-> FALSE]

\* the watch mask: a notification kind is delivered only if it is configured
InMask(config, kind) ==
    CASE kind = "IN_DELETE" -> config.delete
      [] kind = "IN_CREATE" -> config.create_folder \/ config.create_file
      [] kind = "IN_CLOSE_WRITE" -> config.close_write
      [] kind = "IN_MOVED_FROM" -> config.move_from
      [] kind = "IN_MOVED_TO" -> config.move_to
      [] kind = "IN_ATTRIB" -> config.attrib
      [] kind = "IN_MODIFY" -> config.modify

\* the callback call self.callback(event_type, path)
PlainCall(event_type, path) ==
    [type |-> event_type, path |-> path, dest_path |-> "", is_dir |-> FALSE]

\* the callback call made for a paired IN_MOVED_TO
MoveCall(move_from, event) ==
    [type |-> "MOVE", path |-> move_from.src_path, dest_path |-> event.pathname,
     is_dir |-> event.dir]

\* the callback call made for an unpaired IN_MOVED_TO
CreateCall(event) ==
    [type |-> IF event.dir THEN "CREATE_FOLDER" ELSE "CREATE_FILE",
     path |-> event.pathname, dest_path |-> "", is_dir |-> event.dir]

\* m_config: the event configuration; move_buffer: cookie -> buffered
\* IN_MOVED_FROM; m_calls: the calls of the event callback so far;
\* m_queued: the IN_MOVED_TO half of a rename inside the watch, still in the
\* kernel queue; m_event: the notification handled last; m_out: the
\* IN_MOVED_FROM notifications of renames to outside the watch; ncookie: the last
\* cookie the kernel used
\* m_backend: the backend the monitor was set up with
VARIABLES m_config, move_buffer, m_calls, m_queued, m_event, m_out, ncookie, m_backend

mnvars == <<m_config, move_buffer, m_calls, m_queued, m_event, m_out, ncookie, m_backend>>

InitMonitor ==
    /\ m_config \in MoveConfigs
    /\ m_backend \in Backends
    /\ move_buffer = << >>
    /\ m_calls = << >>
    /\ m_queued = NoNotification
    /\ m_event = NoNotification
    /\ m_out = {}
    /\ ncookie = 0

IdleMonitor ==
    /\ m_config = DefaultInotifyConfig
    /\ m_backend = "pyinotify"
    /\ move_buffer = << >>
    /\ m_calls = << >>
    /\ m_queued = NoNotification
    /\ m_event = NoNotification
    /\ m_out = {}
    /\ ncookie = 0

\* EventHandler.process_IN_MOVED_FROM
process_IN_MOVED_FROM(event) ==
    /\ m_event' = event
    /\ move_buffer' =
           IF ~m_config.move_from THEN move_buffer
           ELSE [c \in DOMAIN move_buffer \cup {event.cookie} |->
                    IF c = event.cookie
                    THEN [src_path |-> event.pathname, is_dir |-> event.dir]
                    ELSE move_buffer[c]]
    /\ UNCHANGED m_calls

\* EventHandler.process_IN_MOVED_TO
process_IN_MOVED_TO(event) ==
    /\ m_event' = event
    /\ IF ~m_config.move_to THEN UNCHANGED <<move_buffer, m_calls>>
       ELSE IF event.cookie \in DOMAIN move_buffer
       THEN /\ move_buffer' = [c \in DOMAIN move_buffer \ {event.cookie} |-> move_buffer[c]]
            /\ m_calls' = Append(m_calls, MoveCall(move_buffer[event.cookie], event))
       ELSE /\ m_calls' = Append(m_calls, CreateCall(event))
            /\ UNCHANGED move_buffer

\* a rename of src inside the watch to a path outside it: the kernel
\* reports IN_MOVED_FROM only
RenameOut ==
    /\ m_backend = "pyinotify"
    /\ m_queued = NoNotification
    /\ ncookie < MaxMoves
    /\ InMask(m_config, "IN_MOVED_FROM")
    /\ \E src \in MonitorPaths, dir \in BOOLEAN :
          LET from == [kind |-> "IN_MOVED_FROM", cookie |-> ncookie + 1,
                       pathname |-> src, dir |-> dir]
          IN  /\ process_IN_MOVED_FROM(from)
              /\ m_out' = m_out \cup {from}
    /\ ncookie' = ncookie + 1
    /\ UNCHANGED <<m_config, m_backend, m_queued>>

\* a rename from outside the watch to dst inside it: IN_MOVED_TO only
RenameIn ==
    /\ m_backend = "pyinotify"
    /\ m_queued = NoNotification
    /\ ncookie < MaxMoves
    /\ InMask(m_config, "IN_MOVED_TO")
    /\ \E dst \in MonitorPaths, dir \in BOOLEAN :
          process_IN_MOVED_TO([kind |-> "IN_MOVED_TO", cookie |-> ncookie + 1,
                               pathname |-> dst, dir |-> dir])
    /\ ncookie' = ncookie + 1
    /\ UNCHANGED <<m_config, m_backend, m_queued, m_out>>

\* a rename inside the watch: IN_MOVED_FROM for src, then IN_MOVED_TO for dst
\* with the same cookie; each half is delivered only if the mask has it
RenameWithin ==
    /\ m_backend = "pyinotify"
    /\ m_queued = NoNotification
    /\ ncookie < MaxMoves
    /\ \E src \in MonitorPaths, dst \in MonitorPaths, dir \in BOOLEAN :
          LET from == [kind |-> "IN_MOVED_FROM", cookie |-> ncookie + 1,
                       pathname |-> src, dir |-> dir]
              to == [kind |-> "IN_MOVED_TO", cookie |-> ncookie + 1,
                     pathname |-> dst, dir |-> dir]
          IN  /\ src # dst
              /\ \/ /\ InMask(m_config, "IN_MOVED_FROM")
                    /\ process_IN_MOVED_FROM(from)
                    /\ m_queued' = IF InMask(m_config, "IN_MOVED_TO") THEN to
                                   ELSE NoNotification
                 \/ /\ ~InMask(m_config, "IN_MOVED_FROM")
                    /\ InMask(m_config, "IN_MOVED_TO")
                    /\ process_IN_MOVED_TO(to)
                    /\ m_queued' = NoNotification
    /\ ncookie' = ncookie + 1
    /\ UNCHANGED <<m_config, m_backend, m_out>>

\* the queued IN_MOVED_TO half of a rename inside the watch is handled
DeliverMovedTo ==
    /\ m_queued # NoNotification
    /\ process_IN_MOVED_TO(m_queued)
    /\ m_queued' = NoNotification
    /\ UNCHANGED <<m_config, m_backend, m_out, ncookie>>

\* EventHandler.process_IN_DELETE
process_IN_DELETE(event) ==
    m_calls' = IF ~m_config.delete THEN m_calls
               ELSE Append(m_calls, PlainCall(IF event.dir THEN "DELETE_FOLDER" ELSE "DELETE_FILE",
                                              event.pathname))

\* EventHandler.process_IN_CREATE
process_IN_CREATE(event) ==
    m_calls' = IF event.dir /\ m_config.create_folder
               THEN Append(m_calls, PlainCall("CREATE_FOLDER", event.pathname))
               ELSE IF ~event.dir /\ m_config.create_file
               THEN Append(m_calls, PlainCall("CREATE_FILE", event.pathname))
               ELSE m_calls

\* EventHandler.process_IN_CLOSE_WRITE
process_IN_CLOSE_WRITE(event) ==
    m_calls' = IF m_config.close_write /\ ~event.dir
               THEN Append(m_calls, PlainCall("CLOSE_WRITE", event.pathname))
               ELSE m_calls

\* EventHandler.process_IN_MODIFY
process_IN_MODIFY(event) ==
    m_calls' = IF m_config.modify /\ ~event.dir
               THEN Append(m_calls, PlainCall("MODIFY", event.pathname))
               ELSE m_calls

\* EventHandler.process_IN_ATTRIB
process_IN_ATTRIB(event) ==
    m_calls' = IF m_config.attrib
               THEN Append(m_calls, PlainCall("ATTRIB", event.pathname))
               ELSE m_calls

\* a notification of a plain kind that the watch mask lets through is
\* handed to its handler
Notified ==
    /\ m_backend = "pyinotify"
    /\ Len(m_calls) < MaxCalls
    /\ \E kind \in PlainKinds, path \in MonitorPaths, dir \in BOOLEAN :
          LET event == [kind |-> kind, cookie |-> 0, pathname |-> path, dir |-> dir] IN
          /\ InMask(m_config, kind)
          /\ m_event' = event
          /\ CASE kind = "IN_DELETE" -> process_IN_DELETE(event)
                [] kind = "IN_CREATE" -> process_IN_CREATE(event)
                [] kind = "IN_CLOSE_WRITE" -> process_IN_CLOSE_WRITE(event)
                [] kind = "IN_MODIFY" -> process_IN_MODIFY(event)
                [] kind = "IN_ATTRIB" -> process_IN_ATTRIB(event)
    /\ UNCHANGED <<m_config, m_backend, move_buffer, m_queued, m_out, ncookie>>

\* watchdog EventHandler.on_created
on_created(event) ==
    m_calls' = IF event.dir /\ m_config.create_folder
               THEN Append(m_calls, PlainCall("CREATE_FOLDER", event.pathname))
               ELSE IF ~event.dir /\ m_config.create_file
               THEN Append(m_calls, PlainCall("CREATE_FILE", event.pathname))
               ELSE m_calls

\* watchdog EventHandler.on_modified
on_modified(event) ==
    m_calls' = IF ~event.dir /\ (m_config.close_write \/ m_config.modify)
               THEN Append(m_calls, PlainCall("MODIFY", event.pathname))
               ELSE m_calls

\* watchdog EventHandler.on_deleted
on_deleted(event) ==
    m_calls' = IF m_config.delete
               THEN Append(m_calls, PlainCall(IF event.dir THEN "DELETE_FOLDER" ELSE "DELETE_FILE",
                                              event.pathname))
               ELSE m_calls

\* watchdog EventHandler.on_moved
on_moved(event, dest_path) ==
    m_calls' = IF m_config.move_from /\ m_config.move_to
               THEN Append(m_calls, [type |-> "MOVE", path |-> event.pathname,
                                     dest_path |-> dest_path, is_dir |-> event.dir])
               ELSE m_calls

\* the watchdog observer dispatches a file system event to the handler
WatchdogDispatch ==
    /\ m_backend = "watchdog"
    /\ Len(m_calls) < MaxCalls
    /\ \E kind \in WatchdogKinds, src \in MonitorPaths, dst \in MonitorPaths, dir \in BOOLEAN :
          LET event == [kind |-> kind, cookie |-> 0, pathname |-> src, dir |-> dir] IN
          /\ m_event' = event
          /\ CASE kind = "created" -> on_created(event)
                [] kind = "modified" -> on_modified(event)
                [] kind = "deleted" -> on_deleted(event)
                [] kind = "moved" -> src # dst /\ on_moved(event, dst)
    /\ UNCHANGED <<m_config, m_backend, move_buffer, m_queued, m_out, ncookie>>

\* ------------------------------------------------------------------ file filter
MaxFileEvents == 2

\* a path is a directory string and a file name; a file name is a sequence
\* of pieces (a stem, an extension, a whole special name)
FilterDirs == {"/w/", "/w/logs/"}

FileNames == {<<"a", ".txt">>, <<"a", ".tmp">>, <<".DS_Store">>, <<"a", ".DS_Store">>}

FilterPaths == [dir : FilterDirs, name : FileNames]

FilterEventTypes == {"CLOSE_WRITE", "DELETE_FILE"}

\* DEFAULT_TEMP_PATTERNS: the patterns '.*X$' by their X, the patterns 'X$'
\* by their X
TempSuffixes ==
    {".swp", ".swo", "~", ".tmp", ".temp", ".bak", ".crdownload", ".part", ".filepart"}

TempNames == {".DS_Store", "Thumbs.db", "desktop.ini"}

\* user patterns: '.*X$' (suffix), 'D.*' (prefix) and one that does not compile
UserPatterns ==
    {[kind |-> "suffix", text |-> ".txt"],
     [kind |-> "prefix", text |-> "/w/logs/"],
     [kind |-> "invalid", text |-> "("]}

\* pattern.match(text) of a compiled pattern on a directory string followed
\* by name pieces; match anchors at the start only
PatternMatch(pattern, dir, pieces) ==
    CASE pattern.kind = "suffix" -> Last(pieces) = pattern.text
      [] pattern.kind = "prefix" -> dir = pattern.text
      [] pattern.kind = "name" -> dir = "" /\ pieces = <<pattern.text>>
      [] OTHER -> FALSE

\* FileFilter.__init__: the user patterns that are compiled
CompiledPatterns(enabled, patterns) ==
    IF enabled THEN {pt \in patterns : pt.kind # "invalid"} ELSE {}

\* FileFilter.__init__: the temp patterns that are compiled
CompiledTempPatterns(enable_auto_temp_filter) ==
    IF enable_auto_temp_filter
    THEN {[kind |-> "suffix", text |-> x] : x \in TempSuffixes}
             \cup {[kind |-> "name", text |-> x] : x \in TempNames}
    ELSE {}

NeverTempFile(temp_patterns, file_path) == FALSE

\* _is_temp_file: a temp pattern matches the file name
is_temp_file(temp_patterns, file_path) ==
    \E pt \in temp_patterns : PatternMatch(pt, "", file_path.name)

\* _matches_user_patterns: a pattern matches the full path or the file name
matches_user_patterns(patterns, file_path) ==
    \E pt \in patterns :
        \/ PatternMatch(pt, file_path.dir, file_path.name)
        \/ PatternMatch(pt, "", file_path.name)

\* should_ignore
should_ignore(enabled, patterns, temp_patterns, file_path) ==
    IF is_temp_file(temp_patterns, file_path) THEN TRUE
    ELSE IF enabled /\ matches_user_patterns(patterns, file_path) THEN TRUE
    ELSE FALSE

\* f_config: the FilterConfig; f_patterns, f_temp_patterns: the compiled
\* patterns of the FileFilter; f_loop: the engine's event loop is set;
\* f_events: the events the monitor has reported, in order; f_pushed: the
\* indices of the events pushed to the event queue; f_rsync: the indices of
\* the events for which sync_file has been called; files_filtered: the
\* counter of the engine's stats
VARIABLES f_config, f_patterns, f_temp_patterns, f_loop, f_events, f_pushed, f_rsync,
          files_filtered

fvars ==
    <<f_config, f_patterns, f_temp_patterns, f_loop, f_events, f_pushed, f_rsync,
      files_filtered>>

\* SersyncEngine.__init__ builds the filter with enable_auto_temp_filter=True;
\* start() sets the loop before the monitor starts
InitFilter ==
    /\ f_config \in [enabled : BOOLEAN, patterns : SUBSET UserPatterns]
    /\ f_patterns = CompiledPatterns(f_config.enabled, f_config.patterns)
    /\ f_temp_patterns = CompiledTempPatterns(TRUE)
    /\ f_loop = TRUE
    /\ f_events = << >>
    /\ f_pushed = {}
    /\ f_rsync = {}
    /\ files_filtered = 0

IdleFilter ==
    /\ f_config = [enabled |-> FALSE, patterns |-> {}]
    /\ f_patterns = {}
    /\ f_temp_patterns = CompiledTempPatterns(TRUE)
    /\ f_loop = TRUE
    /\ f_events = << >>
    /\ f_pushed = {}
    /\ f_rsync = {}
    /\ files_filtered = 0

\* _on_file_event
on_file_event(event_type, file_path) ==
    /\ Len(f_events) < MaxFileEvents
    /\ f_events' = Append(f_events, [type |-> event_type, path |-> file_path])
    /\ IF should_ignore(f_config.enabled, f_patterns, f_temp_patterns, file_path)
       THEN /\ files_filtered' = files_filtered + 1
            /\ UNCHANGED f_pushed
       ELSE /\ f_pushed' = IF f_loop THEN f_pushed \cup {Len(f_events) + 1} ELSE f_pushed
            /\ UNCHANGED files_filtered
    /\ UNCHANGED <<f_config, f_patterns, f_temp_patterns, f_loop, f_rsync>>

OnFileEvent == \E t \in FilterEventTypes, fp \in FilterPaths : on_file_event(t, fp)

\* _event_worker and _process_event: an event taken from the event queue is
\* given to sync_file
ProcessEvent ==
    /\ \E i \in f_pushed \ f_rsync : f_rsync' = f_rsync \cup {i}
    /\ UNCHANGED <<f_config, f_patterns, f_temp_patterns, f_loop, f_events, f_pushed,
                   files_filtered>>

\* ------------------------------------------------------------------ conflict resolver
\* _backup_file: the side whose file was copied to the backup directory,
\* "none" for None (absent file, or the copy raised)
backup_file(file_meta, source, copy_ok) ==
    IF ~file_meta.exists THEN "none"
    ELSE IF copy_ok THEN source
    ELSE "none"

\* _resolve_keep_newer: the action taken and the side backed up
resolve_keep_newer(local_meta, remote_meta, enable_backup, copy_ok) ==
    IF ~local_meta.exists
    THEN [action |-> "Use remote (local deleted)", backup |-> "none"]
    ELSE IF ~remote_meta.exists
    THEN [action |-> "Use local (remote deleted)", backup |-> "none"]
    ELSE IF MtimeSet(local_meta) /\ MtimeSet(remote_meta)
    THEN IF local_meta.mtime > remote_meta.mtime
         THEN [action |-> "Use local (newer)",
               backup |-> IF enable_backup THEN backup_file(remote_meta, "remote", copy_ok)
                          ELSE "none"]
         ELSE [action |-> "Use remote (newer)",
               backup |-> IF enable_backup THEN backup_file(local_meta, "local", copy_ok)
                          ELSE "none"]
    ELSE [action |-> "Use local (default)", backup |-> "none"]

NoResolution == [action |-> "unset", backup |-> "none"]

\* r_local, r_remote: the metadata of the conflict; r_enable_backup: the
\* resolver's enable_backup; r_copy_ok: whether shutil.copy2 succeeded;
\* r_result: the ResolutionResult
VARIABLES r_local, r_remote, r_enable_backup, r_copy_ok, r_result

rvars == <<r_local, r_remote, r_enable_backup, r_copy_ok, r_result>>

InitResolve ==
    /\ r_local \in Metas
    /\ r_remote \in Metas
    /\ r_enable_backup \in BOOLEAN
    /\ r_copy_ok = TRUE
    /\ r_result = NoResolution

IdleResolve ==
    /\ r_local = AbsentMeta
    /\ r_remote = AbsentMeta
    /\ r_enable_backup = TRUE
    /\ r_copy_ok = TRUE
    /\ r_result = NoResolution

\* resolve(conflict, KEEP_NEWER)
ResolveKeepNewer ==
    /\ r_result = NoResolution
    /\ \E copy_ok \in BOOLEAN :
          /\ r_copy_ok' = copy_ok
          /\ r_result' = resolve_keep_newer(r_local, r_remote, r_enable_backup, copy_ok)
    /\ UNCHANGED <<r_local, r_remote, r_enable_backup>>

\* ------------------------------------------------------------------ bidirectional coordinator
\* BidirectionalCoordinator: on_local_event / on_remote_event put events on
\* two queues, two processors move them into event_buffer (a dict keyed by
\* file_path), the buffer flush worker drains the buffer, looks for conflicts
\* and triggers a sync; the periodic worker and manual_sync trigger syncs too.
MaxCoQueue == 1

CoPaths == {"a", "b"}

CoEventTypes == {"MODIFY", "DELETE"}

CoSources == {"local", "remote"}

CoWorkers == {"flush", "periodic", "manual"}

\* SyncEvent(event_type, file_path, source, metadata)
SyncEvents == [event_type : CoEventTypes, file_path : CoPaths, source : CoSources]

NoSyncEvent == [event_type |-> "", file_path |-> "", source |-> ""]

EmptyBuffer == [p \in CoPaths |-> NoSyncEvent]

VARIABLES
    enable_unison,    \* config.enable_unison
    local_events,     \* asyncio.Queue of local SyncEvents
    remote_events,    \* asyncio.Queue of remote SyncEvents
    event_buffer,     \* Dict[file_path, SyncEvent]
    co_window,        \* history: the sources each path heard from since the last flush
    co_detected,      \* paths detect_conflict was called for by the last flush
    co_pc             \* per task: "idle", or "sync" while awaiting unison_engine.sync()

covars == <<enable_unison, local_events, remote_events, event_buffer, co_window, co_detected, co_pc>>

InitCoordinator ==
    /\ enable_unison \in BOOLEAN
    /\ local_events = <<>>
    /\ remote_events = <<>>
    /\ event_buffer = EmptyBuffer
    /\ co_window = [p \in CoPaths |-> {}]
    /\ co_detected = {}
    /\ co_pc = [w \in CoWorkers |-> "idle"]

IdleCoordinator ==
    /\ enable_unison = FALSE
    /\ local_events = <<>>
    /\ remote_events = <<>>
    /\ event_buffer = EmptyBuffer
    /\ co_window = [p \in CoPaths |-> {}]
    /\ co_detected = {}
    /\ co_pc = [w \in CoWorkers |-> "idle"]

\* on_local_event: build a SyncEvent with source "local" and queue it.
on_local_event ==
    /\ Len(local_events) < MaxCoQueue
    /\ \E t \in CoEventTypes, p \in CoPaths :
          local_events' = Append(local_events, [event_type |-> t, file_path |-> p, source |-> "local"])
    /\ UNCHANGED <<enable_unison, remote_events, event_buffer, co_window, co_detected, co_pc>>

\* on_remote_event: build a SyncEvent with source "remote" and queue it.
on_remote_event ==
    /\ Len(remote_events) < MaxCoQueue
    /\ \E t \in CoEventTypes, p \in CoPaths :
          remote_events' = Append(remote_events, [event_type |-> t, file_path |-> p, source |-> "remote"])
    /\ UNCHANGED <<enable_unison, local_events, event_buffer, co_window, co_detected, co_pc>>

\* _process_local_events: event_buffer[event.file_path] = event
process_local_events ==
    /\ local_events # <<>>
    /\ LET event == Head(local_events) IN
          /\ event_buffer' = [event_buffer EXCEPT ![event.file_path] = event]
          /\ co_window' = [co_window EXCEPT ![event.file_path] = @ \cup {event.source}]
    /\ local_events' = Tail(local_events)
    /\ UNCHANGED <<enable_unison, remote_events, co_detected, co_pc>>

\* _process_remote_events: event_buffer[event.file_path] = event
process_remote_events ==
    /\ remote_events # <<>>
    /\ LET event == Head(remote_events) IN
          /\ event_buffer' = [event_buffer EXCEPT ![event.file_path] = event]
          /\ co_window' = [co_window EXCEPT ![event.file_path] = @ \cup {event.source}]
    /\ remote_events' = Tail(remote_events)
    /\ UNCHANGED <<enable_unison, local_events, co_detected, co_pc>>

\* _detect_conflicts_for_events: group the events by file_path; the detector
\* is called for the paths whose group holds a local and a remote event.
detect_conflicts_for_events(evts) ==
    LET events_by_path(p) == {e \in evts : e.file_path = p}
    IN  {p \in CoPaths :
            /\ \E e \in events_by_path(p) : e.source = "local"
            /\ \E e \in events_by_path(p) : e.source = "remote"}

\* _trigger_sync up to its await: returns at once when unison is disabled or
\* not available, else the calling task awaits unison_engine.sync().
trigger_sync(w) ==
    \E available \in BOOLEAN :
        co_pc' = [co_pc EXCEPT ![w] = IF enable_unison /\ available THEN "sync" ELSE "idle"]

\* _buffer_flush_worker after its sleep: take list(event_buffer.values()),
\* clear the buffer, _handle_buffered_events (detect, resolve, trigger sync).
buffer_flush_worker ==
    /\ co_pc["flush"] = "idle"
    /\ event_buffer # EmptyBuffer
    /\ LET buffered_events == {event_buffer[p] : p \in CoPaths} \ {NoSyncEvent} IN
          co_detected' = detect_conflicts_for_events(buffered_events)
    /\ event_buffer' = EmptyBuffer
    /\ co_window' = [p \in CoPaths |-> {}]
    /\ trigger_sync("flush")
    /\ UNCHANGED <<enable_unison, local_events, remote_events>>

\* _periodic_sync_worker after its sleep: await self._trigger_sync()
periodic_sync_worker ==
    /\ co_pc["periodic"] = "idle"
    /\ trigger_sync("periodic")
    /\ UNCHANGED <<enable_unison, local_events, remote_events, event_buffer, co_window, co_detected>>

\* manual_sync: returns None when unison is off, else awaits unison_engine.sync(...)
manual_sync ==
    /\ co_pc["manual"] = "idle"
    /\ enable_unison
    /\ co_pc' = [co_pc EXCEPT !["manual"] = "sync"]
    /\ UNCHANGED <<enable_unison, local_events, remote_events, event_buffer, co_window, co_detected>>

\* UnisonEngine.sync: one run of the external two-way synchronizer, started
\* by the call and bounded by a timeout; the awaiting task resumes when it
\* ends, whatever its result.
UnisonSyncReturns ==
    /\ \E w \in CoWorkers :
          /\ co_pc[w] = "sync"
          /\ co_pc' = [co_pc EXCEPT ![w] = "idle"]
    /\ UNCHANGED <<enable_unison, local_events, remote_events, event_buffer, co_window, co_detected>>

\* ------------------------------------------------------------------ engine life cycle
\* SersyncEngine.start / stop with the loops they start: the event workers,
\* EventQueue._auto_flush_loop, _crontab_worker and
\* FailLogExecutor._monitor_loop. The coalescer and the output FIFO are
\* counted, not itemised: lc_pending paths wait in pending_events and
\* lc_fifo merged events are in output_queue.
MaxFifo == 1

MaxPending == 1

\* iterations of the loops, all together, in one run
MaxIters == 4

Workers == {"worker0"}

LoopNames == Workers \cup {"flush", "crontab", "faillog"}

\* what the engine was configured with
LifeConfigs == [notification : BOOLEAN, crontab : BOOLEAN, bidirectional : BOOLEAN,
                faillog : BOOLEAN]

IfOn(flag, component) == IF flag THEN <<component>> ELSE <<>>

\* start(): the components in the order start() brings them up
StartOrder(config) ==
    <<"event_queue">> \o IfOn(config.notification, "notification")
        \o <<"watcher", "workers">> \o IfOn(config.crontab, "scheduler")
        \o IfOn(config.bidirectional, "bidirectional")
        \o IfOn(config.faillog, "ledger") \o <<"broadcaster">>

\* stop(), its last part: the tasks of self._tasks that are cancelled, in
\* list order (the monitor task has ended with monitor.stop())
CancelOrder(config) ==
    <<"workers">> \o IfOn(config.crontab, "scheduler")
        \o IfOn(config.bidirectional, "bidirectional") \o <<"broadcaster">>

\* `while running: try: ... except CancelledError: break; except Exception:
\* log`: does the loop go on after an iteration that ended with outcome?
LoopDiesOnError(outcome, running) == outcome = "ok" /\ running

LoopContinues(outcome, running) == outcome # "cancelled" /\ running

NewLoop == [pc |-> "off", last |-> "none", again |-> FALSE]

\* an iteration has ended with outcome: note it and go on or leave
EndIteration(loop, outcome, running) ==
    [pc |-> IF LoopContinues(outcome, running) THEN "wait" ELSE "exited",
     last |-> outcome,
     again |-> loop.again \/ loop.last = "exception"]

\* flush(): the pending paths that fit go to the output FIFO
Moved(pend, fifo) == IF pend <= MaxFifo - fifo THEN pend ELSE MaxFifo - fifo

VARIABLES
    lc_config,    \* the configuration
    lc_pc,        \* "init", "running", then the place of stop(), "stopped"
    lc_running,   \* SersyncEngine._running
    lc_qrunning,  \* EventQueue._running
    lc_frunning,  \* FailLogExecutor._running
    lc_started,   \* history: the components in the order they were started
    lc_stopped,   \* history: the components in the order they were shut down
    loops,        \* per loop: pc ("off", "wait", "body", "put", "exited"),
                  \* how its last iteration ended, and whether an iteration
                  \* has ended after one that raised
    lc_iters,     \* history: iterations ended so far
    lc_pending,   \* paths in pending_events
    lc_fifo       \* events in output_queue

lcvars == <<lc_config, lc_pc, lc_running, lc_qrunning, lc_frunning, lc_started,
            lc_stopped, loops, lc_iters, lc_pending, lc_fifo>>

InitLifecycle ==
    /\ lc_config \in LifeConfigs
    /\ lc_pc = "init"
    /\ lc_running = FALSE
    /\ lc_qrunning = FALSE
    /\ lc_frunning = FALSE
    /\ lc_started = <<>>
    /\ lc_stopped = <<>>
    /\ loops = [l \in LoopNames |-> NewLoop]
    /\ lc_iters = 0
    /\ lc_pending = 0
    /\ lc_fifo = 0

IdleLifecycle ==
    /\ lc_config = [notification |-> FALSE, crontab |-> FALSE, bidirectional |-> FALSE,
                    faillog |-> FALSE]
    /\ lc_pc = "init"
    /\ lc_running = FALSE
    /\ lc_qrunning = FALSE
    /\ lc_frunning = FALSE
    /\ lc_started = <<>>
    /\ lc_stopped = <<>>
    /\ loops = [l \in LoopNames |-> NewLoop]
    /\ lc_iters = 0
    /\ lc_pending = 0
    /\ lc_fifo = 0

\* SersyncEngine.start up to its gather
LcStart ==
    /\ lc_pc = "init"
    /\ lc_pc' = "running"
    /\ lc_running' = TRUE
    /\ lc_qrunning' = TRUE
    /\ lc_frunning' = lc_config.faillog
    /\ lc_started' = StartOrder(lc_config)
    /\ loops' = [l \in LoopNames |->
                    IF \/ l \in Workers \cup {"flush"}
                       \/ l = "crontab" /\ lc_config.crontab
                       \/ l = "faillog" /\ lc_config.faillog
                    THEN [NewLoop EXCEPT !.pc = "wait"] ELSE NewLoop]
    /\ UNCHANGED <<lc_config, lc_stopped, lc_iters, lc_pending, lc_fifo>>

\* _on_file_event -> EventQueue.push for a path that is not pending yet;
\* the watcher delivers events until monitor.stop()
LcPush ==
    /\ lc_pc = "running"
    /\ lc_pending < MaxPending
    /\ lc_pending' = lc_pending + 1
    /\ UNCHANGED <<lc_config, lc_pc, lc_running, lc_qrunning, lc_frunning, lc_started,
                   lc_stopped, loops, lc_iters, lc_fifo>>

\* _event_worker: wait_for(event_queue.get(), 1.0) returns an event, or
\* times out on an empty queue and the loop condition is read again
WorkerGet ==
    /\ \E w \in Workers :
          /\ loops[w].pc = "wait"
          /\ IF lc_fifo > 0
             THEN /\ lc_running => lc_iters < MaxIters
                  /\ lc_fifo' = lc_fifo - 1
                  /\ loops' = [loops EXCEPT ![w].pc = "body"]
             ELSE /\ ~lc_running
                  /\ loops' = [loops EXCEPT ![w].pc = "exited"]
                  /\ UNCHANGED lc_fifo
    /\ UNCHANGED <<lc_config, lc_pc, lc_running, lc_qrunning, lc_frunning, lc_started,
                   lc_stopped, lc_iters, lc_pending>>

\* _event_worker: _process_event returns or raises
WorkerDone ==
    /\ \E w \in Workers, outcome \in {"ok", "exception"} :
          /\ loops[w].pc = "body"
          /\ loops' = [loops EXCEPT ![w] = EndIteration(@, outcome, lc_running)]
    /\ lc_iters' = lc_iters + 1
    /\ UNCHANGED <<lc_config, lc_pc, lc_running, lc_qrunning, lc_frunning, lc_started,
                   lc_stopped, lc_pending, lc_fifo>>

\* _auto_flush_loop: the sleep is over; flush() returns, raises, or waits in
\* output_queue.put() on a full FIFO
AutoFlush ==
    /\ loops["flush"].pc = "wait"
    /\ lc_iters < MaxIters
    /\ \/ /\ lc_pending' = lc_pending - Moved(lc_pending, lc_fifo)
          /\ lc_fifo' = lc_fifo + Moved(lc_pending, lc_fifo)
          /\ IF lc_pending' = 0
             THEN /\ loops' = [loops EXCEPT !["flush"] = EndIteration(@, "ok", lc_qrunning)]
                  /\ lc_iters' = lc_iters + 1
             ELSE /\ loops' = [loops EXCEPT !["flush"].pc = "put"]
                  /\ UNCHANGED lc_iters
       \/ /\ loops' = [loops EXCEPT !["flush"] = EndIteration(@, "exception", lc_qrunning)]
          /\ lc_iters' = lc_iters + 1
          /\ UNCHANGED <<lc_pending, lc_fifo>>
    /\ UNCHANGED <<lc_config, lc_pc, lc_running, lc_qrunning, lc_frunning, lc_started,
                   lc_stopped>>

\* the flush of the loop, waiting in put(), goes on when the FIFO has room
AutoFlushResumes ==
    /\ loops["flush"].pc = "put"
    /\ lc_fifo < MaxFifo
    /\ lc_pending' = lc_pending - Moved(lc_pending, lc_fifo)
    /\ lc_fifo' = lc_fifo + Moved(lc_pending, lc_fifo)
    /\ IF lc_pending' = 0
       THEN /\ loops' = [loops EXCEPT !["flush"] = EndIteration(@, "ok", lc_qrunning)]
            /\ lc_iters' = lc_iters + 1
       ELSE UNCHANGED <<loops, lc_iters>>
    /\ UNCHANGED <<lc_config, lc_pc, lc_running, lc_qrunning, lc_frunning, lc_started,
                   lc_stopped>>

\* _crontab_worker: the sleep is over; leave if the engine stopped, else
\* sync_full_directory returns or raises
CrontabIteration ==
    /\ loops["crontab"].pc = "wait"
    /\ IF ~lc_running
       THEN /\ loops' = [loops EXCEPT !["crontab"].pc = "exited"]
            /\ UNCHANGED lc_iters
       ELSE /\ lc_iters < MaxIters
            /\ lc_iters' = lc_iters + 1
            /\ \E outcome \in {"ok", "exception"} :
                  loops' = [loops EXCEPT !["crontab"] = EndIteration(@, outcome, lc_running)]
    /\ UNCHANGED <<lc_config, lc_pc, lc_running, lc_qrunning, lc_frunning, lc_started,
                   lc_stopped, lc_pending, lc_fifo>>

\* FailLogExecutor._monitor_loop: the sleep is over; leave if the executor
\* stopped, else _check_and_execute returns or raises
MonitorLoopIteration ==
    /\ loops["faillog"].pc = "wait"
    /\ IF ~lc_frunning
       THEN /\ loops' = [loops EXCEPT !["faillog"].pc = "exited"]
            /\ UNCHANGED lc_iters
       ELSE /\ lc_iters < MaxIters
            /\ lc_iters' = lc_iters + 1
            /\ \E outcome \in {"ok", "exception"} :
                  loops' = [loops EXCEPT !["faillog"] = EndIteration(@, outcome, lc_frunning)]
    /\ UNCHANGED <<lc_config, lc_pc, lc_running, lc_qrunning, lc_frunning, lc_started,
                   lc_stopped, lc_pending, lc_fifo>>

\* SersyncEngine.stop: _running = False, monitor.stop(), then
\* EventQueue.stop up to its last flush: _running = False, the flush task is
\* cancelled and awaited
LcStop ==
    /\ lc_pc = "running"
    /\ lc_running' = FALSE
    /\ lc_qrunning' = FALSE
    /\ loops' = [loops EXCEPT !["flush"].pc = "exited"]
    /\ lc_stopped' = <<"watcher">>
    /\ lc_pc' = "last_flush"
    /\ UNCHANGED <<lc_config, lc_frunning, lc_started, lc_iters, lc_pending, lc_fifo>>

\* EventQueue.stop: await self.flush(); it returns when every pending path
\* has been put on the output FIFO
LastFlush ==
    /\ lc_pc = "last_flush"
    /\ lc_pending = 0 \/ lc_fifo < MaxFifo
    /\ lc_pending' = lc_pending - Moved(lc_pending, lc_fifo)
    /\ lc_fifo' = lc_fifo + Moved(lc_pending, lc_fifo)
    /\ IF lc_pending' = 0
       THEN /\ lc_pc' = "stop_rest"
            /\ lc_stopped' = Append(lc_stopped, "event_queue")
       ELSE UNCHANGED <<lc_pc, lc_stopped>>
    /\ UNCHANGED <<lc_config, lc_running, lc_qrunning, lc_frunning, lc_started, loops, lc_iters>>

\* SersyncEngine.stop after event_queue.stop(): notification_engine.stop(),
\* faillog_executor.stop(), cancel every task of self._tasks, gather
StopRest ==
    /\ lc_pc = "stop_rest"
    /\ lc_frunning' = FALSE
    /\ loops' = [l \in LoopNames |->
                    IF loops[l].pc = "off" THEN loops[l] ELSE [loops[l] EXCEPT !.pc = "exited"]]
    /\ lc_stopped' = lc_stopped \o IfOn(lc_config.notification, "notification")
                        \o IfOn(lc_config.faillog, "ledger") \o CancelOrder(lc_config)
    /\ lc_pc' = "stopped"
    /\ UNCHANGED <<lc_config, lc_running, lc_qrunning, lc_started, lc_iters, lc_pending, lc_fifo>>

\* ------------------------------------------------------------------ specifications
vars == <<qvars, mvars, lvars, dvars, evars, svars, cvars, mnvars, fvars, rvars, covars, lcvars>>

NextQueue ==
    \/ \E ev \in PushEvents : Push(ev[1], ev[2]) /\ UNCHANGED <<mvars, lvars, dvars, evars, svars, cvars, mnvars, fvars, rvars, covars, lcvars>>
    \/ TimerFlush /\ UNCHANGED <<mvars, lvars, dvars, evars, svars, cvars, mnvars, fvars, rvars, covars, lcvars>>
    \/ TimePasses /\ UNCHANGED <<mvars, lvars, dvars, evars, svars, cvars, mnvars, fvars, rvars, covars, lcvars>>
    \/ Get /\ UNCHANGED <<mvars, lvars, dvars, evars, svars, cvars, mnvars, fvars, rvars, covars, lcvars>>
    \/ \E fid \in DOMAIN flushes : Resume(fid) /\ UNCHANGED <<mvars, lvars, dvars, evars, svars, cvars, mnvars, fvars, rvars, covars, lcvars>>

InitSpecQueue == InitQueue /\ IdleMerge /\ IdleLedger /\ IdleDispatch /\ IdleEngine /\ InitState /\ IdleConflict /\ IdleMonitor /\ IdleFilter /\ IdleResolve /\ IdleCoordinator /\ IdleLifecycle

SpecQueue == InitSpecQueue /\ [][NextQueue]_vars

NextMerge == MergeEvents /\ UNCHANGED <<qvars, lvars, dvars, evars, svars, cvars, mnvars, fvars, rvars, covars, lcvars>>

InitSpecMerge == InitMerge /\ InitQueue /\ IdleLedger /\ IdleDispatch /\ IdleEngine /\ InitState /\ IdleConflict /\ IdleMonitor /\ IdleFilter /\ IdleResolve /\ IdleCoordinator /\ IdleLifecycle

SpecMerge == InitSpecMerge /\ [][NextMerge]_vars

NextLedger ==
    \/ \E c \in Cmds : LogFailure(c) /\ UNCHANGED <<qvars, mvars, dvars, evars, svars, cvars, mnvars, fvars, rvars, covars, lcvars>>
    \/ TickStart /\ UNCHANGED <<qvars, mvars, dvars, evars, svars, cvars, mnvars, fvars, rvars, covars, lcvars>>
    \/ Run1Done /\ UNCHANGED <<qvars, mvars, dvars, evars, svars, cvars, mnvars, fvars, rvars, covars, lcvars>>
    \/ Run2Done /\ UNCHANGED <<qvars, mvars, dvars, evars, svars, cvars, mnvars, fvars, rvars, covars, lcvars>>

InitSpecLedger == InitLedger /\ InitQueue /\ IdleMerge /\ IdleDispatch /\ IdleEngine /\ InitState /\ IdleConflict /\ IdleMonitor /\ IdleFilter /\ IdleResolve /\ IdleCoordinator /\ IdleLifecycle

SpecLedger == InitSpecLedger /\ [][NextLedger]_vars

NextDispatch ==
    \/ \E type \in DispatchTypes : SyncFileStart(type) /\ UNCHANGED <<qvars, mvars, lvars, evars, svars, cvars, mnvars, fvars, rvars, covars, lcvars>>
    \/ Invoke /\ UNCHANGED <<qvars, mvars, evars, svars, cvars, mnvars, fvars, rvars, covars, lcvars>>
    \/ \E o \in Outcomes : RsyncDone(o) /\ UNCHANGED <<qvars, mvars, evars, svars, cvars, mnvars, fvars, rvars, covars, lcvars>>
    \/ FsChange /\ UNCHANGED <<qvars, mvars, lvars, evars, svars, cvars, mnvars, fvars, rvars, covars, lcvars>>
    \/ ProcessExits /\ UNCHANGED <<qvars, mvars, lvars, evars, svars, cvars, mnvars, fvars, rvars, covars, lcvars>>

InitSpecDispatch == InitDispatch /\ IdleLedger /\ InitQueue /\ IdleMerge /\ IdleEngine /\ InitState /\ IdleConflict /\ IdleMonitor /\ IdleFilter /\ IdleResolve /\ IdleCoordinator /\ IdleLifecycle

SpecDispatch == InitSpecDispatch /\ [][NextDispatch]_vars

NextEngine ==
    \/ EngineInit /\ UNCHANGED <<qvars, mvars, lvars, dvars, svars, cvars, mnvars, fvars, rvars, covars, lcvars>>
    \/ EngineStart /\ UNCHANGED <<qvars, mvars, lvars, dvars, svars, cvars, mnvars, fvars, rvars, covars, lcvars>>

InitSpecEngine == InitEngine /\ InitQueue /\ IdleMerge /\ IdleLedger /\ IdleDispatch /\ InitState /\ IdleConflict /\ IdleMonitor /\ IdleFilter /\ IdleResolve /\ IdleCoordinator /\ IdleLifecycle

SpecEngine == InitSpecEngine /\ [][NextEngine]_vars

NextState ==
    \/ SaveStart /\ UNCHANGED <<qvars, mvars, lvars, dvars, evars, cvars, mnvars, fvars, rvars, covars, lcvars>>
    \/ WriteChunk /\ UNCHANGED <<qvars, mvars, lvars, dvars, evars, cvars, mnvars, fvars, rvars, covars, lcvars>>
    \/ Rename /\ UNCHANGED <<qvars, mvars, lvars, dvars, evars, cvars, mnvars, fvars, rvars, covars, lcvars>>
    \/ Crash /\ UNCHANGED <<qvars, mvars, lvars, dvars, evars, cvars, mnvars, fvars, rvars, covars, lcvars>>
    \/ Load /\ UNCHANGED <<qvars, mvars, lvars, dvars, evars, cvars, mnvars, fvars, rvars, covars, lcvars>>

InitSpecState == InitState /\ InitQueue /\ IdleMerge /\ IdleLedger /\ IdleDispatch /\ IdleEngine /\ IdleConflict /\ IdleMonitor /\ IdleFilter /\ IdleResolve /\ IdleCoordinator /\ IdleLifecycle

SpecState == InitSpecState /\ [][NextState]_vars

NextConflict == DetectConflict /\ UNCHANGED <<qvars, mvars, lvars, dvars, evars, svars, mnvars, fvars, rvars, covars, lcvars>>

InitSpecConflict ==
    InitConflict /\ InitQueue /\ IdleMerge /\ IdleLedger /\ IdleDispatch /\ IdleEngine /\ InitState /\ IdleMonitor /\ IdleFilter /\ IdleResolve /\ IdleCoordinator /\ IdleLifecycle

SpecConflict == InitSpecConflict /\ [][NextConflict]_vars

NextMonitor ==
    \/ RenameOut /\ UNCHANGED <<qvars, mvars, lvars, dvars, evars, svars, cvars, fvars, rvars, covars, lcvars>>
    \/ RenameIn /\ UNCHANGED <<qvars, mvars, lvars, dvars, evars, svars, cvars, fvars, rvars, covars, lcvars>>
    \/ RenameWithin /\ UNCHANGED <<qvars, mvars, lvars, dvars, evars, svars, cvars, fvars, rvars, covars, lcvars>>
    \/ DeliverMovedTo /\ UNCHANGED <<qvars, mvars, lvars, dvars, evars, svars, cvars, fvars, rvars, covars, lcvars>>
    \/ Notified /\ UNCHANGED <<qvars, mvars, lvars, dvars, evars, svars, cvars, fvars, rvars, covars, lcvars>>
    \/ WatchdogDispatch /\ UNCHANGED <<qvars, mvars, lvars, dvars, evars, svars, cvars, fvars, rvars, covars, lcvars>>

InitSpecMonitor ==
    InitMonitor /\ InitQueue /\ IdleMerge /\ IdleLedger /\ IdleDispatch /\ IdleEngine /\ InitState /\ IdleConflict /\ IdleFilter /\ IdleResolve /\ IdleCoordinator /\ IdleLifecycle

\* the notifier handles every notification the kernel has queued
SpecMonitor == InitSpecMonitor /\ [][NextMonitor]_vars /\ WF_vars(NextMonitor)

NextFilter ==
    \/ OnFileEvent /\ UNCHANGED <<qvars, mvars, lvars, dvars, evars, svars, cvars, mnvars, rvars, covars, lcvars>>
    \/ ProcessEvent /\ UNCHANGED <<qvars, mvars, lvars, dvars, evars, svars, cvars, mnvars, rvars, covars, lcvars>>

InitSpecFilter ==
    InitFilter /\ InitQueue /\ IdleMerge /\ IdleLedger /\ IdleDispatch /\ IdleEngine /\ InitState /\ IdleConflict /\ IdleMonitor /\ IdleResolve /\ IdleCoordinator /\ IdleLifecycle

SpecFilter == InitSpecFilter /\ [][NextFilter]_vars

NextResolve ==
    \/ ResolveKeepNewer /\ UNCHANGED <<qvars, mvars, lvars, dvars, evars, svars, cvars, mnvars, fvars, covars, lcvars>>

InitSpecResolve ==
    InitResolve /\ InitQueue /\ IdleMerge /\ IdleLedger /\ IdleDispatch /\ IdleEngine /\ InitState /\ IdleConflict /\ IdleMonitor /\ IdleFilter /\ IdleCoordinator /\ IdleLifecycle

SpecResolve == InitSpecResolve /\ [][NextResolve]_vars

NextCoordinator ==
    \/ on_local_event /\ UNCHANGED <<qvars, mvars, lvars, dvars, evars, svars, cvars, mnvars, fvars, rvars, lcvars>>
    \/ on_remote_event /\ UNCHANGED <<qvars, mvars, lvars, dvars, evars, svars, cvars, mnvars, fvars, rvars, lcvars>>
    \/ process_local_events /\ UNCHANGED <<qvars, mvars, lvars, dvars, evars, svars, cvars, mnvars, fvars, rvars, lcvars>>
    \/ process_remote_events /\ UNCHANGED <<qvars, mvars, lvars, dvars, evars, svars, cvars, mnvars, fvars, rvars, lcvars>>
    \/ buffer_flush_worker /\ UNCHANGED <<qvars, mvars, lvars, dvars, evars, svars, cvars, mnvars, fvars, rvars, lcvars>>
    \/ periodic_sync_worker /\ UNCHANGED <<qvars, mvars, lvars, dvars, evars, svars, cvars, mnvars, fvars, rvars, lcvars>>
    \/ manual_sync /\ UNCHANGED <<qvars, mvars, lvars, dvars, evars, svars, cvars, mnvars, fvars, rvars, lcvars>>
    \/ UnisonSyncReturns /\ UNCHANGED <<qvars, mvars, lvars, dvars, evars, svars, cvars, mnvars, fvars, rvars, lcvars>>

InitSpecCoordinator ==
    InitCoordinator /\ InitQueue /\ IdleMerge /\ IdleLedger /\ IdleDispatch /\ IdleEngine /\ InitState /\ IdleConflict /\ IdleMonitor /\ IdleFilter /\ IdleResolve /\ IdleLifecycle

SpecCoordinator == InitSpecCoordinator /\ [][NextCoordinator]_vars

NextLifecycle ==
    \/ LcStart /\ UNCHANGED <<qvars, mvars, lvars, dvars, evars, svars, cvars, mnvars, fvars, rvars, covars>>
    \/ LcPush /\ UNCHANGED <<qvars, mvars, lvars, dvars, evars, svars, cvars, mnvars, fvars, rvars, covars>>
    \/ WorkerGet /\ UNCHANGED <<qvars, mvars, lvars, dvars, evars, svars, cvars, mnvars, fvars, rvars, covars>>
    \/ WorkerDone /\ UNCHANGED <<qvars, mvars, lvars, dvars, evars, svars, cvars, mnvars, fvars, rvars, covars>>
    \/ AutoFlush /\ UNCHANGED <<qvars, mvars, lvars, dvars, evars, svars, cvars, mnvars, fvars, rvars, covars>>
    \/ AutoFlushResumes /\ UNCHANGED <<qvars, mvars, lvars, dvars, evars, svars, cvars, mnvars, fvars, rvars, covars>>
    \/ CrontabIteration /\ UNCHANGED <<qvars, mvars, lvars, dvars, evars, svars, cvars, mnvars, fvars, rvars, covars>>
    \/ MonitorLoopIteration /\ UNCHANGED <<qvars, mvars, lvars, dvars, evars, svars, cvars, mnvars, fvars, rvars, covars>>
    \/ LcStop /\ UNCHANGED <<qvars, mvars, lvars, dvars, evars, svars, cvars, mnvars, fvars, rvars, covars>>
    \/ LastFlush /\ UNCHANGED <<qvars, mvars, lvars, dvars, evars, svars, cvars, mnvars, fvars, rvars, covars>>
    \/ StopRest /\ UNCHANGED <<qvars, mvars, lvars, dvars, evars, svars, cvars, mnvars, fvars, rvars, covars>>

InitSpecLifecycle ==
    InitLifecycle /\ InitQueue /\ IdleMerge /\ IdleLedger /\ IdleDispatch /\ IdleEngine /\ InitState /\ IdleConflict /\ IdleMonitor /\ IdleFilter /\ IdleResolve /\ IdleCoordinator

\* the event loop runs every task that is ready to run
SpecLifecycle == InitSpecLifecycle /\ [][NextLifecycle]_vars /\ WF_vars(NextLifecycle)

\* ------------------------------------------------------------------ claims
\* C1: within one flush() call at most one merged event per path is put on
\* the output FIFO, however many raw events the path had.
C1_OnePutPerPathPerFlush ==
    \A i, j \in DOMAIN log :
        (/\ log[i].out = "put" /\ log[j].out = "put"
         /\ log[i].fid = log[j].fid /\ log[i].path = log[j].path) => i = j

\* a flush has put the merged event of a path that had several raw events
C1_Witness ==
    \E i \in DOMAIN log : log[i].out = "put" /\ log[i].size >= 2

\* C2 as stated: a flush that started with a DELETE_FOLDER pending at P
\* publishes no event for a path strictly under P.
C2_NoDescendantPublished ==
    \A i \in DOMAIN log : ~(log[i].out = "put" /\ log[i].anc)

\* C2 amended: a flush that started with a DELETE_FOLDER pending at P
\* publishes an event for a path strictly under P only if that path's own
\* merged event is a DELETE_FOLDER.
C2_DescendantDroppedUnlessDeleteDir ==
    \A i \in DOMAIN log :
        (log[i].out = "put" /\ log[i].anc) => events[log[i].eid].type = "DELETE_FOLDER"

\* a flush dropped the merged event of a path under a deleted directory
C2_Witness ==
    \E i \in DOMAIN log :
        /\ log[i].out = "filtered" /\ log[i].anc
        /\ events[log[i].eid].type # "DELETE_FOLDER"

\* the order of the claim, lowest first
ClaimedOrder == <<{"ATTRIB"}, {"CREATE_FILE", "CREATE_FOLDER"},
                  {"CLOSE_WRITE", "MODIFY"}, {"MOVE"},
                  {"DELETE_FILE", "DELETE_FOLDER"}>>

ClaimedRank(type) == CHOOSE r \in DOMAIN ClaimedOrder : type \in ClaimedOrder[r]

\* C3: the merged event is the earliest-arrived of the events of highest
\* priority in the group, under Delete > Move > CloseWrite = Modify >
\* Create > Attrib; CreateFile, Modify, DeleteFile merge to the DeleteFile.
C3_MergeIsEarliestOfHighest ==
    m_pos # 0 =>
        /\ m_pos \in DOMAIN m_types
        /\ \A k \in DOMAIN m_types :
              ClaimedRank(m_types[k]) <= ClaimedRank(m_types[m_pos])
        /\ \A k \in 1..(m_pos - 1) :
              ClaimedRank(m_types[k]) < ClaimedRank(m_types[m_pos])
        /\ (m_types = <<"CREATE_FILE", "MODIFY", "DELETE_FILE">>
               => m_types[m_pos] = "DELETE_FILE")

\* CreateFile, Modify, DeleteFile have been merged
C3_Witness ==
    m_types = <<"CREATE_FILE", "MODIFY", "DELETE_FILE">> /\ m_pos = 3

\* C4: for one path the merged events reach the output FIFO in window
\* order: no emission of an earlier list of the path follows an emission
\* of a later list of the path.
C4_WindowOrderPerPath ==
    \A i, j \in DOMAIN log :
        (/\ i < j /\ log[i].out = "put" /\ log[j].out = "put"
         /\ log[i].path = log[j].path) => log[i].gid <= log[j].gid

GidOf(e) == CHOOSE g \in DOMAIN groups : \E k \in DOMAIN groups[g] : groups[g][k] = e

PosOf(e) == CHOOSE k \in DOMAIN groups[GidOf(e)] : groups[GidOf(e)][k] = e

\* a suspended flush will still merge the list of event e, or has merged it
\* when e was in it and is waiting to put the merged event
InFlight(e) ==
    \E fid \in DOMAIN flushes : \E k \in DOMAIN flushes[fid].snap :
        /\ flushes[fid].snap[k].gid = GidOf(e)
        /\ \/ k > flushes[fid].idx
           \/ k = flushes[fid].idx /\ PosOf(e) <= flushes[fid].msize

\* C5: no pushed event is lost: it is still pending, or a suspended flush
\* holds it, or a flush merged its list and published or suppressed the
\* merged event when the event was in the list (or published an event of
\* the same kind for the list).
C5_NoSilentLoss ==
    \A e \in DOMAIN events :
        \/ \E i \in DOMAIN pending : pending[i].gid = GidOf(e)
        \/ InFlight(e)
        \/ \E i \in DOMAIN log :
              /\ log[i].gid = GidOf(e)
              /\ \/ PosOf(e) <= log[i].size
                 \/ events[log[i].eid].type = events[e].type

\* the lists of path p that left pending_events and were not suppressed by
\* a DELETE_FOLDER of a strict ancestor
UnsuppressedWindows(p) ==
    {g \in DOMAIN groups :
        /\ events[groups[g][1]].path = p
        /\ \A i \in DOMAIN pending : pending[i].gid # g
        /\ ~\E i \in DOMAIN log :
              /\ log[i].gid = g /\ log[i].anc
              /\ events[log[i].eid].type # "DELETE_FOLDER"}

\* C6: when no flush is in progress, the merged events emitted for a path
\* are as many as the windows that saw a non-suppressed event for it.
C6_EmissionsEqualWindows ==
    DOMAIN flushes = {} =>
        \A p \in Paths :
            Cardinality({i \in DOMAIN log : log[i].out = "put" /\ log[i].path = p})
                = Cardinality(UnsuppressedWindows(p))

\* the content x is a prefix of the content y
IsContentPrefix(x, y) ==
    /\ Len(x) <= Len(y)
    /\ \A i \in 1..(Len(x) - 1) : x[i] = y[i]
    /\ \/ Last(x) = Blank
       \/ Last(x) = y[Len(x)]
       \/ y[Len(x)].k = "joined"

\* C7: a command that the dispatcher appends while an executor tick is in
\* progress is still in the ledger when the tick ends, unless a retry of
\* that command succeeded in the tick.
C7_AppendDuringTickSurvives ==
    [][(lpc # "idle" /\ lpc' = "idle") =>
          \A c \in tick_added :
              \/ c \in LedgerCommands(ledger'.lines)
              \/ c \in Reported(tick_out1, "SUCCESS") \cup Reported(proc.output, "SUCCESS")]_vars

C9_NewLedgerIsFailedSet ==
    [][(lpc = "run2" /\ last_rc > 0 /\ proc.returncode >= 0 /\ lpc' = "idle") =>
          LedgerCommands(ledger'.lines) = Reported(tick_out1, "FAILED")]_vars

\* C10: when a tick ends with a script run that exited 0, the ledger file
\* holds the interpreter line and nothing else, so no rsync command.
C10_ExitZeroEmptiesLedger ==
    [][(lpc # "idle" /\ lpc' = "idle" /\ proc.returncode = 0) =>
          /\ ledger'.lines = <<L("shebang"), Blank>>
          /\ ~has_rsync_commands(ledger'.lines)]_vars

\* a tick has just ended on exit 0 and left the ledger without a command
C10_Witness ==
    /\ lpc = "idle"
    /\ last_rc = 0
    /\ nticks > 0
    /\ ledger.lines = <<L("shebang"), Blank>>


\* C11: an executor tick on a missing ledger, or on a ledger that holds no
\* rsync command line, runs no script and leaves the file as it was.
C11_TickOnEmptyLedgerIsNoOp ==
    [][(/\ lpc = "idle" /\ nticks' # nticks
        /\ (~ledger.exists \/ LedgerCommands(ledger.lines) = {})) =>
          (ledger' = ledger /\ lpc' = "idle" /\ proc' = NoProc)]_vars

\* a tick has run on a ledger that the executor had cleared before
C11_Witness ==
    /\ nticks = 2
    /\ lpc = "idle"
    /\ last_rc = 0
    /\ ledger = [exists |-> TRUE, lines |-> <<L("shebang"), Blank>>]

\* C12: an invocation that failed has appended exactly one ledger entry,
\* holding the command that was invoked; one that succeeded has appended
\* none; and sync_file returns only after it has a result for every remote.
C12_OneEntryPerFailedInvocation ==
    /\ (d_last.valid /\ ~d_last.skipped) =>
          IF d_last.success
          THEN d_last.after = d_last.before
          ELSE d_last.after = d_last.before + 1 /\ d_last.logged = d_last.cmd
    /\ (d_pc = "idle" /\ ndispatch > 0) => Len(d_results) = Len(Remotes)

\* C13: a call of _rsync_to_remote for a delete whose source and whose parent
\* directory are both missing returns success, starts no rsync and leaves
\* the ledger as it was.
C13_DeleteOfMissingTreeSkips ==
    [][(/\ d_pc = "call" /\ fs' = fs
        /\ (d_pc' # d_pc \/ d_remote' # d_remote)
        /\ d_type \in {"DELETE_FILE", "DELETE_FOLDER"}
        /\ ~fs.source /\ ~fs.parent) =>
          /\ d_results' = Append(d_results, TRUE)
          /\ d_pc' # "await"
          /\ ledger' = ledger]_vars

\* sync_file has returned and its last remote was skipped in this way
C13_Witness ==
    /\ d_pc = "idle"
    /\ d_last.valid /\ d_last.skipped
    /\ d_results = <<TRUE, TRUE>>

\* C14: an invocation that ran is a success exactly when rsync exited 0, or
\* the event is a delete and rsync exited 23 with 'No such file or
\* directory' on stderr.
C14_SuccessIffZeroOrCoercedDelete ==
    (d_last.valid /\ ~d_last.skipped) =>
        (d_last.success <=>
            /\ d_last.outcome.kind = "exit"
            /\ \/ d_last.outcome.returncode = 0
               \/ /\ d_last.type \in {"DELETE_FILE", "DELETE_FOLDER"}
                  /\ d_last.outcome.returncode = 23
                  /\ d_last.outcome.nsf)

\* a delete that exited 23 with the text was taken as a success, and an
\* event that is no delete would not be
C14_Witness ==
    /\ d_last.valid /\ ~d_last.skipped /\ d_last.success
    /\ d_last.type = "DELETE_FILE"
    /\ d_last.outcome.returncode = 23

\* the path, resolved, is the watched root, resolved, or lies under it
InsideWatchedRoot(path, watch) ==
    LET p == Resolve(path)
        w == Resolve(watch)
    IN Len(w) <= Len(p) /\ SubSeq(p, 1, Len(w)) = w

\* C15: the construction of the metadata store fails with the configuration
\* error whenever an override resolves inside the watched root, and then
\* nothing has been created.
C15_OverrideInsideWatchFails ==
    (/\ md_result # "none"
     /\ \E k \in OverrideKeys :
            e_config[k] # NoPath /\ InsideWatchedRoot(e_config[k], e_watch)) =>
        md_result = "ValueError" /\ md_created = {}

\* the construction has failed for an override that is inside the watched
\* root only once '..' is resolved
C15_Witness ==
    /\ md_result = "ValueError"
    /\ e_config["conflict_backup_dir"] = <<"v", "..", "w", "m">>
    /\ e_config["metadata_dir"] = <<"v", "m">>
    /\ e_config["lock_file"] = NoPath

\* C16: with a two-way remote whose metadata override is inside the watched
\* root, the engine does not start: no watcher and no worker loop runs.
C16_EngineDoesNotStart ==
    (/\ e_mode = "bidirectional"
     /\ \E k \in OverrideKeys :
            e_config[k] # NoPath /\ InsideWatchedRoot(e_config[k], e_watch)) =>
        e_state # "running" /\ e_tasks = {}

\* C17: whatever point a save has reached or crashed at, sync_state.json is
\* absent or holds, whole, the state of the last save that returned, and a
\* reader never meets a partly written state.
C17_ReaderSeesPreviousState ==
    /\ IF committed = 0 THEN ~state_file.exists
       ELSE /\ state_file.exists
            /\ state_file.written = MaxChunks
            /\ state_file.version = committed
    /\ last_read.kind # "invalid"

\* a save crashed after it had written a part of the next state, and a
\* reader then read the state of the save before it
C17_Witness ==
    /\ s_pc = "idle"
    /\ temp_file.exists /\ temp_file.written = 1
    /\ temp_file.version = committed + 1
    /\ last_read = [kind |-> "state", version |-> committed]

\* the mirror of a conflict type
Mirror(type) ==
    CASE type = "local_deleted_remote_modified" -> "remote_deleted_local_modified"
      [] type = "remote_deleted_local_modified" -> "local_deleted_remote_modified"
      [] OTHER -> type

\* C18: detect(remote, local, base) is the mirror of detect(local, remote,
\* base): the two one-sided deletions swap, every other result is the same.
C18_DetectorIsSymmetric ==
    c_result # "unset" => c_swapped = Mirror(c_result)

\* a local deletion against a remote change, seen from the other side
C18_Witness ==
    /\ c_result = "local_deleted_remote_modified"
    /\ c_swapped = "remote_deleted_local_modified"

\* a step in which the handler of IN_MOVED_TO ran
HandlesMovedTo == m_event' # m_event /\ m_event'.kind = "IN_MOVED_TO"

\* a MovedTo whose cookie has a buffered MovedFrom yields exactly one Move,
\* from the buffered source to the notified destination
C19_PairYieldsOneMove ==
    [][HandlesMovedTo /\ m_event'.cookie \in DOMAIN move_buffer =>
          m_calls' = Append(m_calls,
                            [type |-> "MOVE",
                             path |-> move_buffer[m_event'.cookie].src_path,
                             dest_path |-> m_event'.pathname,
                             is_dir |-> m_event'.dir])]_vars

\* a MovedTo without a buffered MovedFrom yields exactly one Create
C19_UnpairedMovedToYieldsCreate ==
    [][HandlesMovedTo /\ m_event'.cookie \notin DOMAIN move_buffer =>
          /\ Len(m_calls') = Len(m_calls) + 1
          /\ \A i \in DOMAIN m_calls : m_calls'[i] = m_calls[i]
          /\ Last(m_calls').type \in {"CREATE_FILE", "CREATE_FOLDER"}
          /\ Last(m_calls').path = m_event'.pathname]_vars

\* a delete call for path has been made
DeleteCalled(path) ==
    \E i \in DOMAIN m_calls :
        m_calls[i].type \in {"DELETE_FILE", "DELETE_FOLDER"} /\ m_calls[i].path = path

\* a MovedFrom whose rename leaves the watch is followed by a Delete of its
\* source path
C19_UnpairedMovedFromYieldsDelete ==
    \A src \in MonitorPaths :
        (\E e \in m_out : e.pathname = src) ~> DeleteCalled(src)

\* C19: paired MovedFrom/MovedTo yield one Move, an unpaired MovedTo yields
\* a Create, and an unpaired MovedFrom yields a Delete of the source path.
C19_MoveNotificationsBecomeEvents ==
    /\ C19_PairYieldsOneMove
    /\ C19_UnpairedMovedToYieldsCreate
    /\ C19_UnpairedMovedFromYieldsDelete

\* the file name, as one sequence of pieces, ends with suffix
NameEndsWith(file_path, suffix) == Last(file_path.name) = suffix

\* a built-in temp pattern applies to the path
BuiltInIgnores(file_path) ==
    \/ \E x \in TempSuffixes : NameEndsWith(file_path, x)
    \/ \E x \in TempNames : file_path.name = <<x>>

\* a configured user pattern applies to the path
UserPatternIgnores(file_path) ==
    \E pt \in f_config.patterns :
        \/ pt.kind = "suffix" /\ NameEndsWith(file_path, pt.text)
        \/ pt.kind = "prefix" /\ file_path.dir = pt.text

\* C20: an event whose path a built-in temp pattern ignores, or a user
\* pattern while user filtering is enabled, is never pushed to the event
\* queue and never reaches rsync; with user filtering disabled, an event
\* that no built-in pattern ignores is pushed, whatever the user patterns.
C20_IgnoredNeverLeavesFilter ==
    \A i \in DOMAIN f_events :
        LET fp == f_events[i].path
        IN  /\ (BuiltInIgnores(fp) \/ (f_config.enabled /\ UserPatternIgnores(fp)))
                => i \notin f_pushed /\ i \notin f_rsync
            /\ (~f_config.enabled /\ ~BuiltInIgnores(fp)) => i \in f_pushed

\* a temp file was dropped, and, with filtering disabled, a path that a user
\* pattern names went on to rsync
C20_Witness ==
    /\ ~f_config.enabled
    /\ \E i \in DOMAIN f_events : BuiltInIgnores(f_events[i].path) /\ i \notin f_pushed
    /\ \E i \in DOMAIN f_events : UserPatternIgnores(f_events[i].path) /\ i \in f_rsync

\* with filtering enabled, an event of a path that only a user pattern names
\* was dropped
C20_WitnessUser ==
    /\ f_config.enabled
    /\ \E i \in DOMAIN f_events :
          /\ ~BuiltInIgnores(f_events[i].path)
          /\ UserPatternIgnores(f_events[i].path)
          /\ i \notin f_pushed
          /\ files_filtered > 0

\* C21: when an event has been processed, sync_success has grown by the
\* number of remotes whose invocation succeeded and sync_failed by the
\* number whose invocation failed, also when the remotes disagree.
C21_EngineStatsCountInvocations ==
    [][d_pc # "idle" /\ d_pc' = "idle" =>
          /\ engine_stats'.sync_success
               = engine_stats.sync_success + SuccessCount(d_results')
          /\ engine_stats'.sync_failed
               = engine_stats.sync_failed + (Len(d_results') - SuccessCount(d_results'))]_vars

\* the same for the events on which all remotes agree
C21_StatsCountWhenRemotesAgree ==
    [][(d_pc # "idle" /\ d_pc' = "idle"
          /\ SuccessCount(d_results') \in {0, Len(d_results')}) =>
          /\ engine_stats'.sync_success
               = engine_stats.sync_success + SuccessCount(d_results')
          /\ engine_stats'.sync_failed
               = engine_stats.sync_failed + (Len(d_results') - SuccessCount(d_results'))]_vars

\* C22: an engine whose failure-ledger path lies inside the watched root is
\* refused at construction: neither the dispatcher nor the executor is built
\* and the engine is not constructed.
C22_LedgerInsideWatchRefused ==
    (e_fail_log # NoPath /\ InsideWatchedRoot(e_fail_log, e_watch)) =>
        e_built = {} /\ e_state = "new"

\* the mtime of the metadata is known
MtimeKnown(m) == m.mtime # -1

\* with both sides present and both mtimes known and different, the side with
\* the larger mtime is selected and, when backups are enabled and the copy
\* succeeds, the other side is backed up
C23_NewerSelectedOtherBackedUp ==
    (/\ r_result # NoResolution
     /\ r_local.exists /\ r_remote.exists
     /\ MtimeKnown(r_local) /\ MtimeKnown(r_remote)
     /\ r_local.mtime > 0 /\ r_remote.mtime > 0
     /\ r_local.mtime # r_remote.mtime) =>
        IF r_local.mtime > r_remote.mtime
        THEN /\ r_result.action = "Use local (newer)"
             /\ (r_enable_backup /\ r_copy_ok) => r_result.backup = "remote"
        ELSE /\ r_result.action = "Use remote (newer)"
             /\ (r_enable_backup /\ r_copy_ok) => r_result.backup = "local"

\* C23: KeepNewer with both sides present selects the side with the larger
\* mtime and backs up the other side, and keeps local by default only when
\* both mtimes are unknown.
C23_KeepNewerSelectsLargerMtime ==
    (r_result # NoResolution /\ r_local.exists /\ r_remote.exists) =>
        /\ (MtimeKnown(r_local) /\ MtimeKnown(r_remote)
                /\ r_local.mtime # r_remote.mtime) =>
              IF r_local.mtime > r_remote.mtime
              THEN /\ r_result.action = "Use local (newer)"
                   /\ (r_enable_backup /\ r_copy_ok) => r_result.backup = "remote"
              ELSE /\ r_result.action = "Use remote (newer)"
                   /\ (r_enable_backup /\ r_copy_ok) => r_result.backup = "local"
        /\ r_result.action = "Use local (default)" =>
              ~MtimeKnown(r_local) /\ ~MtimeKnown(r_remote)

\* the default is taken although the remote mtime is known
C23_DefaultWithOneMtimeKnown ==
    /\ r_result.action = "Use local (default)"
    /\ r_local.mtime = -1
    /\ r_remote.mtime = 4

\* a tick ends on the branch that keeps the script: the first run exited
\* non-zero, the run whose output is analysed did not succeed and no failed
\* command was parsed from it; nothing was appended during the tick
TickKeepsScript ==
    /\ lpc = "run2" /\ lpc' = "idle"
    /\ last_rc > 0
    /\ proc.returncode # 0
    /\ parse_failed_commands_from_output(proc.output) = <<>>
    /\ tick_added = {}

\* C24: when a tick's script run exits non-zero and no FAILED line is parsed
\* from the output, the ledger after the tick is the ledger before the tick.
C24_UnparsedFailureKeepsLedger ==
    [][TickKeepsScript => ledger'.lines = tick_before]_vars

\* on that branch the step itself writes nothing, and the file holds what
\* the tick read with the result check appended
C24_KeptWithResultCheck ==
    [][TickKeepsScript =>
          /\ ledger' = ledger
          /\ ledger'.lines = add_result_check_to_script(tick_before)]_vars

\* C25: whenever _rsync_to_remote returns the Timeout outcome, the rsync
\* subprocess of that invocation has been killed and is not running.
C25_TimeoutKillsSubprocess ==
    (d_last.valid /\ d_last.outcome.kind = "timeout") => d_last.proc \in {"killed", "exited"}

\* the base version exists: it is given and its exists-bit is set
BaseExists(base) == base # NoMeta /\ base.exists

\* the case table of the detector, in the order it is stated
CaseTable(local, remote, base, hash) ==
    IF ~local.exists /\ ~remote.exists THEN "no_conflict"
    ELSE IF local.exists /\ ~remote.exists
    THEN IF BaseExists(base) THEN "remote_deleted_local_modified" ELSE "no_conflict"
    ELSE IF ~local.exists /\ remote.exists
    THEN IF BaseExists(base) THEN "local_deleted_remote_modified" ELSE "no_conflict"
    ELSE IF ~BaseExists(base) /\ ~files_identical(local, remote, hash) THEN "both_created"
    ELSE IF files_identical(local, remote, hash) THEN "no_conflict"
    ELSE IF /\ BaseExists(base)
            /\ ~files_identical(local, base, hash)
            /\ ~files_identical(remote, base, hash)
    THEN "both_modified"
    ELSE "no_conflict"

\* C26: detect(local, remote, base) is the result of the case table for all
\* inputs; a base that is absent counts as non-existent.
C26_DetectFollowsCaseTable ==
    c_result # "unset" => c_result = CaseTable(c_local, c_remote, c_base, c_hash)

\* the table is followed whenever a base is given
C26_CaseTableWithBaseGiven ==
    (c_result # "unset" /\ c_base # NoMeta) =>
        c_result = CaseTable(c_local, c_remote, c_base, c_hash)

\* both hashes can be used: hashing is enabled and both records have one
HashesAvailable(m1, m2, hash) == hash /\ m1.content_hash # "" /\ m2.content_hash # ""

\* the mtimes are within the tolerance; a missing mtime is taken as within
MtimesWithinTolerance(m1, m2) ==
    (m1.mtime > 0 /\ m2.mtime > 0) => Abs(m1.mtime - m2.mtime) <= time_tolerance

\* the identity rule as stated
StatedIdentical(m1, m2, hash) ==
    /\ m1.exists = m2.exists
    /\ m1.size = m2.size
    /\ \/ HashesAvailable(m1, m2, hash) /\ m1.content_hash = m2.content_hash
       \/ ~HashesAvailable(m1, m2, hash) /\ MtimesWithinTolerance(m1, m2)

\* C27: two records are judged identical exactly when their exists-bits and
\* sizes are equal and either both hashes are usable and equal, or they are
\* not both usable and the mtimes are within the tolerance.
C27_IdenticalIffStatedRule ==
    c_result # "unset" => (c_identical <=> StatedIdentical(c_local, c_remote, c_hash))

\* the rule is followed when hashing is disabled or both hashes are present
C27_RuleUnlessHashMissing ==
    (c_result # "unset" /\ (~c_hash \/ HashesAvailable(c_local, c_remote, c_hash))) =>
        (c_identical <=> StatedIdentical(c_local, c_remote, c_hash))

\* the tasks of the coordinator that are inside unison_engine.sync()
SyncsInFlight == {w \in CoWorkers : co_pc[w] = "sync"}

\* C28: reconciling is non-reentrant: at no time are two peer-reconciler
\* invocations of one coordinator in flight, whichever of the buffer flush
\* worker, the periodic worker and manual_sync started them.
C28_AtMostOneSyncInFlight ==
    Cardinality(SyncsInFlight) <= 1

\* a step of the buffer flush worker: the only step that empties the buffer
IsBufferFlush == event_buffer # EmptyBuffer /\ event_buffer' = EmptyBuffer

BothSides == {p \in CoPaths : co_window[p] = CoSources}

\* C29: a buffer flush calls the conflict detector for exactly the paths
\* that received both a local and a remote event since the previous flush.
C29_FlushDetectsTwoSidedPaths ==
    [][IsBufferFlush => co_detected' = BothSides]_vars

\* the half of C29 about one-sided paths: a buffer flush never calls the
\* detector for a path that heard from one side only.
C29_NoDetectForOneSidedPath ==
    [][IsBufferFlush => co_detected' \subseteq BothSides]_vars

\* the configuration flag that gates a kind of event passed to the callback
KindEnabled(config, type) ==
    CASE type \in {"DELETE_FOLDER", "DELETE_FILE"} -> config.delete
      [] type = "CREATE_FOLDER" -> config.create_folder
      [] type = "CREATE_FILE" -> config.create_file
      [] type = "CLOSE_WRITE" -> config.close_write
      [] type = "MODIFY" -> config.modify
      [] type = "ATTRIB" -> config.attrib
      [] type = "MOVE" -> config.move_from /\ config.move_to

\* C30: the watcher respects the event mask: no event of a kind whose flag
\* is off in the configuration is ever passed to the callback, whatever the
\* notifications were (an IN_MOVED_TO without its IN_MOVED_FROM included).
C30_MaskRespected ==
    \A i \in DOMAIN m_calls : KindEnabled(m_config, m_calls[i].type)

\* the part of C30 that the pyinotify handlers keep: a call made for any
\* notification other than an unpaired IN_MOVED_TO is of an enabled kind.
C30_MaskRespectedButForMovedTo ==
    [][(/\ m_calls' # m_calls
        /\ m_backend = "pyinotify"
        /\ ~(HandlesMovedTo /\ m_event'.cookie \notin DOMAIN move_buffer))
       => KindEnabled(m_config, m_calls'[Len(m_calls')].type)]_vars

\* C31: stop() always terminates: from every state in which stop() has been
\* called, the output FIFO full and paths still pending included, the
\* engine reaches the stopped state.
C31_StopTerminates ==
    (lc_pc \in {"last_flush", "stop_rest"}) ~> (lc_pc = "stopped")

\* the part of C31 that holds: a stop() called with nothing pending, or
\* with room for what is pending, is never left waiting
C31_StopWithRoomGoesOn ==
    (lc_pc = "last_flush" /\ lc_pending <= MaxFifo - lc_fifo) ~> (lc_pc = "stopped")

Reverse(q) == [i \in 1..Len(q) |-> q[Len(q) + 1 - i]]

\* the start order of the claim, with every optional component present
ClaimedStartOrder ==
    <<"event_queue", "notification", "watcher", "workers", "scheduler", "bidirectional",
      "ledger", "broadcaster">>

\* the first half of C32: the components are started in the claimed order
C32_StartOrderAsClaimed ==
    lc_pc # "init" =>
        lc_started = SelectSeq(ClaimedStartOrder, LAMBDA c : \E i \in DOMAIN lc_started : lc_started[i] = c)

\* C32: the components are started in the claimed order and stopped in the
\* reverse of it, the broadcaster first and the event queue last.
C32_StopReversesStart ==
    /\ C32_StartOrderAsClaimed
    /\ lc_pc = "stopped" => lc_stopped = Reverse(lc_started)

\* the engine flag a loop's `while` reads
RunningFlagOf(l) ==
    IF l = "flush" THEN lc_qrunning ELSE IF l = "faillog" THEN lc_frunning ELSE lc_running

\* C33: an iteration of an event worker, of the auto-flush loop, of the
\* scheduler loop or of the ledger executor that ends with an exception
\* while the engine is running leaves the loop alive, ready for a further
\* iteration.
C33_FailingIterationKeepsLoop ==
    [][\A l \in LoopNames :
          (/\ lc_iters' = lc_iters + 1
           /\ loops'[l] # loops[l]
           /\ loops'[l].last = "exception"
           /\ RunningFlagOf(l))
          => loops'[l].pc = "wait"]_vars

\* a loop has done a further iteration after one that raised
C33_Witness ==
    /\ lc_running
    /\ loops["worker0"].again
    /\ loops["worker0"].pc = "wait"

\* C34: every merged event put on the output FIFO carries a merged_count
\* equal to the number of raw events of its path that were merged into it,
\* a single event (merged_count 1) included.
C34_MergedCountIsGroupSize ==
    \A i \in DOMAIN log :
        log[i].out = "put" => events[log[i].eid].merged_count = log[i].size

\* the part of C34 that holds: an event merged from two or more raw events
\* carries a count, and it is at least the number of events merged into it
C34_GroupsCarryCount ==
    \A i \in DOMAIN log :
        (log[i].out = "put" /\ log[i].size >= 2)
            => events[log[i].eid].merged_count >= log[i].size

\* C35: a flush drops a merged event only when a strict ancestor of its
\* path had a DELETE_FOLDER in the window and its own kind is not
\* DELETE_FOLDER; a path that had a DELETE_FOLDER itself but has no deleted
\* strict ancestor gets its merged event published.
C35_DropOnlyUnderStrictAncestor ==
    \A i \in DOMAIN log :
        log[i].out = "filtered"
            => (log[i].anc /\ events[log[i].eid].type # "DELETE_FOLDER")

\* the part of C35 that holds: a merged DELETE_FOLDER is never dropped
C35_DeleteDirNeverDropped ==
    \A i \in DOMAIN log :
        log[i].out = "filtered" => events[log[i].eid].type # "DELETE_FOLDER"

\* the content starts with the interpreter line, then (comments and blank
\* lines apart) RETRY_COUNT=0 and FAILED_COUNT=0, and every command entry
\* comes after them
HasPreamble(x) ==
    /\ Head(x).k = "shebang"
    /\ \E i, j \in DOMAIN x :
          /\ i < j
          /\ x[i].k = "retry_init"
          /\ x[j].k = "failed_init"
          /\ \A n \in 2..(j - 1) :
                n # i => x[n].k \in {"blank", "comment_generated", "comment_incremental"}

\* C36: whenever the ledger file exists with something written to it, it
\* begins with the interpreter line followed by the initialisations of
\* RETRY_COUNT and FAILED_COUNT, which precede every command entry.
C36_LedgerHasPreamble ==
    (ledger.exists /\ ledger.lines # <<Blank>>) => HasPreamble(ledger.lines)

\* the part of C36 that holds: a ledger that holds a command has the
\* interpreter line and the two initialisations in front of every entry
C36_CommandsFollowPreamble ==
    (ledger.exists /\ has_rsync_commands(ledger.lines)) => HasPreamble(ledger.lines)

\* C37: an executor tick runs the ledger script exactly once: when the run
\* it awaits returns, the tick ends (pruning from that run's output)
\* without starting the script again.
C37_TickRunsScriptOnce ==
    [][(lpc = "run1" /\ lpc' # "run1") => lpc' = "idle"]_vars

\* the part of C37 that holds: a tick whose run exits 0 runs the script once
C37_OneRunWhenExitZero ==
    [][(lpc = "run1" /\ lpc' # "run1" /\ proc.returncode = 0) => lpc' = "idle"]_vars

\* no list of pending events is published by two flushes
C38_NoGroupPublishedTwice ==
    \A i, j \in DOMAIN log :
        (/\ log[i].out = "put" /\ log[j].out = "put"
         /\ log[i].gid = log[j].gid) => log[i].fid = log[j].fid

\* no flush fails on `del self.pending_events[file_path]`
C38_NoKeyError ==
    \A i \in DOMAIN log : log[i].out # "keyerror"

\* C38: overlapping flushes are safe: when a flush runs while another is
\* suspended on the full output FIFO, no pending list is merged and
\* published by both, and neither fails when it removes a path that the
\* other has removed already.
C38_OverlappingFlushesSafe ==
    C38_NoGroupPublishedTwice /\ C38_NoKeyError

\* the raw events that wait in pending_events
RECURSIVE PendingRawFrom(_)
PendingRawFrom(i) ==
    IF i > Len(pending) THEN 0 ELSE Len(groups[pending[i].gid]) + PendingRawFrom(i + 1)

\* C39: whenever no flush is in progress, events_received equals
\* events_merged + events_output + events_filtered plus the raw events
\* still pending.
C39_StatsConserved ==
    DOMAIN flushes = {} =>
        stats.events_received =
            stats.events_merged + stats.events_output + stats.events_filtered
                + PendingRawFrom(1)

\* every override is given and none resolves inside the watched root
AllOverridesOutside ==
    \A k \in OverrideKeys :
        e_config[k] # NoPath /\ ~InsideWatchedRoot(e_config[k], e_watch)

\* C40: the validation rejects only paths inside the watched root: with
\* every override outside it, a sibling whose name merely starts with the
\* watched root's name included (root /w, override /wx/m), the
\* construction succeeds.
C40_OverrideOutsideWatchAccepted ==
    (md_result # "none" /\ AllOverridesOutside) => md_result = "ok"

\* the part of C40 that holds: overrides outside the watched root whose
\* text does not start with the text of the watched root are accepted
C40_AcceptedUnlessNamePrefix ==
    (/\ md_result # "none"
     /\ AllOverridesOutside
     /\ \A k \in OverrideKeys :
            ~StartsWith(PathStr(Resolve(e_config[k])), PathStr(Resolve(e_watch))))
        => md_result = "ok"

====
